---- MODULE Spec2Model ----
(***************************************************************************)
(* Settlement core of the AMOCA parametric climate insurance contracts:    *)
(* liquidity_pool, policy_manager_enhanced, funding_rate and the three     *)
(* claim entry points (claim_processor::process_claim and                  *)
(* claim_processor_updated::process_claim_with_aggregated_data /           *)
(* process_claim_with_aggregator).                                         *)
(* The oracle aggregation entry points (switchboard_oracle,                *)
(* switchboard_oracle_integration, oracle_aggregator) and risk_model are   *)
(* modelled on objects of their own.                                       *)
(*                                                                         *)
(* Every entry function is one action.  A Move abort rolls the whole       *)
(* transaction back, so an aborting call leaves every object unchanged and *)
(* only records its outcome in `last`.                                     *)
(*                                                                         *)
(* The repository declares Policy twice (policy_manager and                *)
(* policy_manager_enhanced).  The policy objects are modelled as one       *)
(* record carrying the fields of the enhanced struct; funding_rate and     *)
(* claim_processor read the fields common to both declarations.           *)
(***************************************************************************)
EXTENDS Integers, Sequences, FiniteSets, Bags, TLC

(* ------------------------------ bounds -------------------------------- *)
MaxPolicies == 1
MaxClaims == 2
MaxTokens == 2
MaxRates == 1
MaxFundingEvents == 1
MaxEpoch == 25
MaxLiquidity == 20000
MaxShares == 30000
MaxCollateral == 4000
MaxFundingCounter == 0

(* ------------------------------ inputs -------------------------------- *)
Addr == {"alice", "bob"}
PolicyCreators == {"alice"}
PolicyLocations == {"east-africa"}
PolicyPerils == {"drought"}
OracleLocations == {"east-africa", "south-pacific"}
OracleDataTypes == {"drought", "flood"}
CoverageAmounts == {10000}
Thresholds == {100}
Operators == 0..3
ObservedValues == {99, 102}
DepositAmounts == {10000}
CollateralAmounts == {3000, 3500}
CollateralDeltas == {500}
InsuredValues == {[hi |-> 0, lo |-> 0], [hi |-> 0, lo |-> 10000]}
EpochJumps == {25}
SourceCounts == {3}
DecimalPlaces == {9}

(* --------------------------- abort kinds ------------------------------ *)
OK == "ok"
Unauthorized == "Unauthorized"
PolicyInactive == "PolicyInactive"
AlreadyTerminated == "AlreadyTerminated"
OracleMismatch == "OracleMismatch"
InsufficientLiquidity == "InsufficientLiquidity"
InsufficientFunds == "InsufficientFunds"
InsufficientCollateral == "InsufficientCollateral"
BelowMarginRequirement == "BelowMarginRequirement"
StaleRate == "StaleRate"
ArithmeticError == "ArithmeticError"

VARIABLES pool, lp_tokens, policies, registry, claims, funding_rates,
          funding_events, epoch, last,
          feed_registry, aggregated, batch, readings, risk_models, quotes

vars == <<pool, lp_tokens, policies, registry, claims, funding_rates,
          funding_events, epoch, last,
          feed_registry, aggregated, batch, readings, risk_models, quotes>>

\* the objects of the oracle modules and of risk_model
input_vars == <<batch, readings>>
oracle_vars == <<feed_registry, aggregated, input_vars>>
risk_vars == <<risk_models, quotes>>

\* the objects of the settlement modules
settlement_vars == <<pool, lp_tokens, policies, registry, claims, funding_rates, funding_events, epoch>>

(* ------------------------------ helpers ------------------------------- *)
RECURSIVE SumFn(_, _)
SumFn(f, S) ==
    IF S = {} THEN 0
    ELSE LET x == CHOOSE y \in S : TRUE IN f[x] + SumFn(f, S \ {x})

Outcome(op, err) == [op |-> op, err |-> err]

(* ========================== liquidity_pool ============================ *)

\* create_pool: empty balance, empty share table, no shares
create_pool ==
    [total_liquidity |-> 0, lp_shares |-> <<>>, total_shares |-> 0]

\* a share calculation that rounds the issued shares up
calculate_shares_ceil(pl, amount) ==
    IF pl.total_shares = 0 THEN amount
    ELSE (amount * pl.total_shares + pl.total_liquidity - 1) \div pl.total_liquidity

\* a share calculation that reads the pool after the deposit was joined to it
calculate_shares_post(pl, amount) ==
    IF pl.total_shares = 0 THEN amount
    ELSE (amount * pl.total_shares) \div (pl.total_liquidity + amount)

\* share calculation of add_liquidity, on the pool before the deposit
calculate_shares(pl, amount) ==
    IF pl.total_shares = 0 THEN amount
    ELSE (amount * pl.total_shares) \div pl.total_liquidity

\* share table update of add_liquidity that overwrites an existing entry
update_shares_overwrite(tbl, sender, shares) ==
    IF sender \in DOMAIN tbl
    THEN [tbl EXCEPT ![sender] = shares]
    ELSE [a \in (DOMAIN tbl) \cup {sender} |->
              IF a = sender THEN shares ELSE tbl[a]]

\* share table update of add_liquidity
update_shares(tbl, sender, shares) ==
    IF sender \in DOMAIN tbl
    THEN [tbl EXCEPT ![sender] = tbl[sender] + shares]
    ELSE [a \in (DOMAIN tbl) \cup {sender} |->
              IF a = sender THEN shares ELSE tbl[a]]

LPToken(owner, shares) == [owner |-> owner, shares |-> shares]

\* a deposit that treats a pool without liquidity like a pool without shares
add_liquidity_reseeds(sender, amount) ==
    /\ pool.total_liquidity + amount <= MaxLiquidity
    /\ BagCardinality(lp_tokens) < MaxTokens
    /\ LET shares == IF pool.total_liquidity = 0 THEN amount
                     ELSE calculate_shares(pool, amount) IN
       /\ pool.total_shares + shares <= MaxShares
       /\ pool' = [total_liquidity |-> pool.total_liquidity + amount,
                   lp_shares |-> update_shares(pool.lp_shares, sender, shares),
                   total_shares |-> pool.total_shares + shares]
       /\ lp_tokens' = lp_tokens (+) SetToBag({LPToken(sender, shares)})
       /\ last' = Outcome("add_liquidity", OK)
    /\ UNCHANGED <<policies, registry, claims, funding_rates, funding_events, epoch, oracle_vars, risk_vars>>

add_liquidity(sender, amount) ==
    /\ pool.total_liquidity + amount <= MaxLiquidity
    /\ BagCardinality(lp_tokens) < MaxTokens
    /\ IF pool.total_shares # 0 /\ pool.total_liquidity = 0
       THEN /\ last' = Outcome("add_liquidity", ArithmeticError)
            /\ UNCHANGED <<pool, lp_tokens>>
       ELSE LET shares == calculate_shares(pool, amount) IN
            /\ pool.total_shares + shares <= MaxShares
            /\ pool' = [total_liquidity |-> pool.total_liquidity + amount,
                        lp_shares |-> update_shares(pool.lp_shares, sender, shares),
                        total_shares |-> pool.total_shares + shares]
            /\ lp_tokens' = lp_tokens (+) SetToBag({LPToken(sender, shares)})
            /\ last' = Outcome("add_liquidity", OK)
    /\ UNCHANGED <<policies, registry, claims, funding_rates, funding_events, epoch, oracle_vars, risk_vars>>

\* an amount calculation that rounds the provider's part of the pool up
redeem_amount_ceil(pl, shares) ==
    (shares * pl.total_liquidity + pl.total_shares - 1) \div pl.total_shares

\* amount returned by remove_liquidity for `shares`, on the pool before the withdrawal
redeem_amount(pl, shares) ==
    (shares * pl.total_liquidity) \div pl.total_shares

remove_liquidity(sender, token) ==
    /\ BagIn(token, lp_tokens)
    /\ IF token.owner # sender
       THEN /\ last' = Outcome("remove_liquidity", Unauthorized)
            /\ UNCHANGED <<pool, lp_tokens>>
       ELSE IF pool.total_shares = 0
       THEN /\ last' = Outcome("remove_liquidity", ArithmeticError)
            /\ UNCHANGED <<pool, lp_tokens>>
       ELSE LET amount == redeem_amount(pool, token.shares) IN
            IF \/ token.owner \notin DOMAIN pool.lp_shares
               \/ pool.lp_shares[token.owner] < token.shares
               \/ pool.total_shares < token.shares
               \/ pool.total_liquidity < amount
            THEN /\ last' = Outcome("remove_liquidity", ArithmeticError)
                 /\ UNCHANGED <<pool, lp_tokens>>
            ELSE /\ pool' = [total_liquidity |-> pool.total_liquidity - amount,
                             lp_shares |-> [pool.lp_shares EXCEPT ![token.owner] = @ - token.shares],
                             total_shares |-> pool.total_shares - token.shares]
                 /\ lp_tokens' = lp_tokens (-) SetToBag({token})
                 /\ last' = Outcome("remove_liquidity", OK)
    /\ UNCHANGED <<policies, registry, claims, funding_rates, funding_events, epoch, oracle_vars, risk_vars>>

\* process_claim_payout: pays `amount` out of the pool's liquidity
process_claim_payout(pl, amount) ==
    IF amount > pl.total_liquidity
    THEN [err |-> InsufficientLiquidity, pool |-> pl]
    ELSE [err |-> OK, pool |-> [pl EXCEPT !.total_liquidity = @ - amount]]

\* add_funding_payment: credits a funding payment to the pool
add_funding_payment(pl, amount) ==
    [pl EXCEPT !.total_liquidity = @ + amount]

\* deduct_funding_payment: debits a funding payment from the pool
deduct_funding_payment(pl, amount) ==
    IF amount > pl.total_liquidity
    THEN [err |-> InsufficientFunds, pool |-> pl]
    ELSE [err |-> OK, pool |-> [pl EXCEPT !.total_liquidity = @ - amount]]

get_total_liquidity(pl) == pl.total_liquidity

(* ====================== policy_manager_enhanced ======================= *)

\* RiskParameters as initialised by init: Table<String, u64> entries
location_risk ==
    [l \in {"east-africa", "southeast-asia", "central-america", "south-pacific"} |->
        CASE l = "east-africa" -> 1200
          [] l = "southeast-asia" -> 1500
          [] l = "central-america" -> 1300
          [] l = "south-pacific" -> 1400]

peril_risk ==
    [p \in {"drought", "flood", "heat", "wind"} |->
        CASE p = "drought" -> 1300
          [] p = "flood" -> 1600
          [] p = "heat" -> 1200
          [] p = "wind" -> 1400]

base_margin_requirement == 1000

\* a margin calculation in which a missing table entry contributes nothing
calculate_margin_requirement_no_default(location, peril_type, coverage_amount) ==
    LET loc == IF location \in DOMAIN location_risk
               THEN location_risk[location] ELSE 0
        per == IF peril_type \in DOMAIN peril_risk
               THEN peril_risk[peril_type] ELSE 0
        total_risk_factor == base_margin_requirement + loc + per
    IN (coverage_amount * total_risk_factor) \div 10000

calculate_margin_requirement(location, peril_type, coverage_amount) ==
    LET loc == IF location \in DOMAIN location_risk
               THEN location_risk[location] ELSE 1000
        per == IF peril_type \in DOMAIN peril_risk
               THEN peril_risk[peril_type] ELSE 1000
        total_risk_factor == base_margin_requirement + loc + per
    IN (coverage_amount * total_risk_factor) \div 10000

PolicyIds == 1..Len(policies)

\* create_policy, for a registry that holds fewer than limit policies
create_policy_within(limit, sender, location, peril_type, coverage_amount, trigger_threshold, trigger_operator, collateral_amount) ==
    /\ Len(policies) < limit
    /\ LET margin_requirement ==
               calculate_margin_requirement(location, peril_type, coverage_amount)
       IN IF ~(collateral_amount >= margin_requirement)
          THEN /\ last' = Outcome("create_policy", InsufficientCollateral)
               /\ UNCHANGED <<policies, registry>>
          ELSE /\ policies' = Append(policies,
                      [owner |-> sender,
                       location |-> location,
                       peril_type |-> peril_type,
                       coverage_amount |-> coverage_amount,
                       trigger_threshold |-> trigger_threshold,
                       trigger_operator |-> trigger_operator,
                       collateral_balance |-> collateral_amount,
                       margin_requirement |-> margin_requirement,
                       funding_rate_paid |-> 0,
                       funding_rate_received |-> 0,
                       active |-> TRUE])
               /\ registry' = [total_policies |-> registry.total_policies + 1,
                               total_coverage |-> registry.total_coverage + coverage_amount]
               /\ last' = Outcome("create_policy", OK)
    /\ UNCHANGED <<pool, lp_tokens, claims, funding_rates, funding_events, epoch, oracle_vars, risk_vars>>

create_policy(sender, location, peril_type, coverage_amount, trigger_threshold, trigger_operator, collateral_amount) ==
    create_policy_within(MaxPolicies, sender, location, peril_type, coverage_amount, trigger_threshold, trigger_operator, collateral_amount)

add_collateral(sender, pid, amount) ==
    /\ pid \in PolicyIds
    /\ policies[pid].collateral_balance + amount <= MaxCollateral
    /\ IF policies[pid].owner # sender
       THEN /\ last' = Outcome("add_collateral", Unauthorized)
            /\ UNCHANGED policies
       ELSE /\ policies' = [policies EXCEPT
                              ![pid].collateral_balance = @ + amount]
            /\ last' = Outcome("add_collateral", OK)
    /\ UNCHANGED <<pool, lp_tokens, registry, claims, funding_rates, funding_events, epoch, oracle_vars, risk_vars>>

\* a withdrawal of collateral that does not verify the caller
remove_collateral_any(sender, pid, amount) ==
    /\ pid \in PolicyIds
    /\ LET policy == policies[pid]
           current_balance == policy.collateral_balance
       IN IF current_balance < policy.margin_requirement
          THEN /\ last' = Outcome("remove_collateral", ArithmeticError)
               /\ UNCHANGED policies
          ELSE IF ~(amount <= current_balance - policy.margin_requirement)
          THEN /\ last' = Outcome("remove_collateral", BelowMarginRequirement)
               /\ UNCHANGED policies
          ELSE /\ policies' = [policies EXCEPT
                                 ![pid].collateral_balance = @ - amount]
               /\ last' = Outcome("remove_collateral", OK)
    /\ UNCHANGED <<pool, lp_tokens, registry, claims, funding_rates, funding_events, epoch, oracle_vars, risk_vars>>

\* a withdrawal of collateral that only requires the balance to cover the amount
remove_collateral_no_margin(sender, pid, amount) ==
    /\ pid \in PolicyIds
    /\ LET policy == policies[pid]
           current_balance == policy.collateral_balance
       IN IF policy.owner # sender
          THEN /\ last' = Outcome("remove_collateral", Unauthorized)
               /\ UNCHANGED policies
          ELSE IF ~(amount <= current_balance)
          THEN /\ last' = Outcome("remove_collateral", BelowMarginRequirement)
               /\ UNCHANGED policies
          ELSE /\ policies' = [policies EXCEPT
                                 ![pid].collateral_balance = @ - amount]
               /\ last' = Outcome("remove_collateral", OK)
    /\ UNCHANGED <<pool, lp_tokens, registry, claims, funding_rates, funding_events, epoch, oracle_vars, risk_vars>>

remove_collateral(sender, pid, amount) ==
    /\ pid \in PolicyIds
    /\ LET policy == policies[pid]
           current_balance == policy.collateral_balance
       IN IF policy.owner # sender
          THEN /\ last' = Outcome("remove_collateral", Unauthorized)
               /\ UNCHANGED policies
          ELSE IF current_balance < policy.margin_requirement
          THEN /\ last' = Outcome("remove_collateral", ArithmeticError)
               /\ UNCHANGED policies
          ELSE IF ~(amount <= current_balance - policy.margin_requirement)
          THEN /\ last' = Outcome("remove_collateral", BelowMarginRequirement)
               /\ UNCHANGED policies
          ELSE /\ policies' = [policies EXCEPT
                                 ![pid].collateral_balance = @ - amount]
               /\ last' = Outcome("remove_collateral", OK)
    /\ UNCHANGED <<pool, lp_tokens, registry, claims, funding_rates, funding_events, epoch, oracle_vars, risk_vars>>

\* a termination that leaves the registry total as it was
terminate_policy_stale_total(sender, pid) ==
    /\ pid \in PolicyIds
    /\ LET policy == policies[pid] IN
       IF policy.owner # sender
       THEN /\ last' = Outcome("terminate_policy", Unauthorized)
            /\ UNCHANGED <<policies, registry>>
       ELSE IF ~policy.active
       THEN /\ last' = Outcome("terminate_policy", AlreadyTerminated)
            /\ UNCHANGED <<policies, registry>>
       ELSE /\ policies' = [policies EXCEPT
                              ![pid].collateral_balance = 0,
                              ![pid].active = FALSE]
            /\ UNCHANGED registry
            /\ last' = Outcome("terminate_policy", OK)
    /\ UNCHANGED <<pool, lp_tokens, claims, funding_rates, funding_events, epoch, oracle_vars, risk_vars>>

terminate_policy(sender, pid) ==
    /\ pid \in PolicyIds
    /\ LET policy == policies[pid] IN
       IF policy.owner # sender
       THEN /\ last' = Outcome("terminate_policy", Unauthorized)
            /\ UNCHANGED <<policies, registry>>
       ELSE IF ~policy.active
       THEN /\ last' = Outcome("terminate_policy", AlreadyTerminated)
            /\ UNCHANGED <<policies, registry>>
       ELSE /\ policies' = [policies EXCEPT
                              ![pid].collateral_balance = 0,
                              ![pid].active = FALSE]
            /\ registry' = [registry EXCEPT
                              !.total_coverage = @ - policy.coverage_amount]
            /\ last' = Outcome("terminate_policy", OK)
    /\ UNCHANGED <<pool, lp_tokens, claims, funding_rates, funding_events, epoch, oracle_vars, risk_vars>>

is_undercollateralized(policy) ==
    policy.collateral_balance < policy.margin_requirement

get_total_insured_value == registry.total_coverage

\* a read-back that returns the trigger threshold and the coverage amount in each other's place
get_policy_details_swapped(policy) ==
    <<policy.owner, policy.location, policy.peril_type, policy.trigger_threshold,
      policy.coverage_amount, policy.collateral_balance, policy.active>>

get_policy_details(policy) ==
    <<policy.owner, policy.location, policy.peril_type, policy.coverage_amount,
      policy.trigger_threshold, policy.collateral_balance, policy.active>>

\* get_trigger_operator: accessor used by claim_processor_updated
get_trigger_operator(policy) == policy.trigger_operator

\* policy_manager::deduct_collateral, used by funding_rate
deduct_collateral(policy, amount) ==
    IF amount > policy.collateral_balance
    THEN [err |-> InsufficientFunds, policy |-> policy]
    ELSE [err |-> OK, policy |-> [policy EXCEPT !.collateral_balance = @ - amount]]

\* policy_manager::add_collateral(policy, amount), used by funding_rate
credit_collateral(policy, amount) ==
    [policy EXCEPT !.collateral_balance = @ + amount]

\* policy_manager_enhanced::process_funding_payment: books the payment in the
\* policy's funding counters; the balances are moved by the caller
policy_process_funding_payment(pid, rate, direction) ==
    /\ pid \in PolicyIds
    /\ LET policy == policies[pid]
           payment_amount == (policy.coverage_amount * rate) \div 10000
       IN /\ policy.funding_rate_paid + policy.funding_rate_received <= MaxFundingCounter
          /\ IF ~policy.active
             THEN /\ last' = Outcome("policy_process_funding_payment", PolicyInactive)
                  /\ UNCHANGED policies
             ELSE IF direction
             THEN IF ~(policy.collateral_balance >= payment_amount)
                  THEN /\ last' = Outcome("policy_process_funding_payment", InsufficientCollateral)
                       /\ UNCHANGED policies
                  ELSE /\ policies' = [policies EXCEPT ![pid].funding_rate_paid = @ + payment_amount]
                       /\ last' = Outcome("policy_process_funding_payment", OK)
             ELSE /\ policies' = [policies EXCEPT ![pid].funding_rate_received = @ + payment_amount]
                  /\ last' = Outcome("policy_process_funding_payment", OK)
    /\ UNCHANGED <<pool, lp_tokens, registry, claims, funding_rates, funding_events, epoch, oracle_vars, risk_vars>>

(* ============================ funding_rate ============================ *)

\* rate and direction computed by update_funding_rate
compute_rate(total_liquidity, total_insured_value) ==
    LET utilization == IF total_liquidity = 0 THEN 10000
                       ELSE (total_insured_value * 10000) \div total_liquidity
        target_utilization == 8000
        base_rate == 50
    IN IF utilization > target_utilization
       THEN [rate |-> base_rate + ((utilization - target_utilization) \div 100),
             direction |-> TRUE]
       ELSE [rate |-> IF utilization < 5000
                      THEN (target_utilization - utilization) \div 1000
                      ELSE 0,
             direction |-> FALSE]

\* a u64 written hi * 10^9 + lo with lo < 10^9
Wide(hi, lo) == [hi |-> hi, lo |-> lo]

\* v * 10000 does not fit in 64 bits: v > floor((2^64 - 1) / 10000) = 1844674407370955
times_10000_overflows(v) ==
    \/ v.hi > 1844674
    \/ v.hi = 1844674 /\ v.lo > 407370955

\* update_funding_rate, while fewer than limit rate objects are shared
update_funding_rate_within(limit, total_insured_value) ==
    /\ Cardinality(funding_rates) < limit
    /\ IF get_total_liquidity(pool) # 0 /\ times_10000_overflows(total_insured_value)
       THEN /\ last' = Outcome("update_funding_rate", ArithmeticError)
            /\ UNCHANGED funding_rates
       ELSE /\ total_insured_value.hi = 0
            /\ LET r == compute_rate(get_total_liquidity(pool), total_insured_value.lo) IN
               funding_rates' = funding_rates \cup
                   {[rate |-> r.rate, direction |-> r.direction,
                     calculated_at |-> epoch, valid_until |-> epoch + 24]}
            /\ last' = Outcome("update_funding_rate", OK)
    /\ UNCHANGED <<pool, lp_tokens, policies, registry, claims, funding_events, epoch, oracle_vars, risk_vars>>

update_funding_rate(total_insured_value) ==
    update_funding_rate_within(MaxRates, total_insured_value)

\* a payment calculation that reads the rate as a percentage
funding_payment_amount_percent(coverage_amount, rate) ==
    (coverage_amount * rate) \div 100

\* payment of process_funding_payment: the rate is in basis points
funding_payment_amount(coverage_amount, rate) ==
    (coverage_amount * rate) \div 10000

\* a validity check that already refuses the rate in its last valid epoch
rate_is_valid_strict(now, funding_rate) == now < funding_rate.valid_until

\* a validity check that refuses a rate once a newer one has been computed
rate_is_valid_latest(now, funding_rate) ==
    /\ now <= funding_rate.valid_until
    /\ \A other \in funding_rates : other.calculated_at <= funding_rate.calculated_at

\* validity check of process_funding_payment
rate_is_valid(now, funding_rate) == now <= funding_rate.valid_until

\* process_funding_payment, while fewer than limit payments have been moved
process_funding_payment_within(limit, pid, funding_rate) ==
    /\ pid \in PolicyIds
    /\ funding_rate \in funding_rates
    /\ funding_events < limit
    /\ LET policy == policies[pid]
           payment_amount == funding_payment_amount(policy.coverage_amount, funding_rate.rate)
       IN IF ~rate_is_valid(epoch, funding_rate)
          THEN /\ last' = Outcome("process_funding_payment", StaleRate)
               /\ UNCHANGED <<pool, policies, funding_events>>
          ELSE IF ~(payment_amount > 0)
          THEN /\ last' = Outcome("process_funding_payment", OK)
               /\ UNCHANGED <<pool, policies, funding_events>>
          ELSE IF funding_rate.direction
          THEN LET d == deduct_collateral(policy, payment_amount) IN
               IF d.err # OK
               THEN /\ last' = Outcome("process_funding_payment", d.err)
                    /\ UNCHANGED <<pool, policies, funding_events>>
               ELSE /\ policies' = [policies EXCEPT ![pid] = d.policy]
                    /\ pool' = add_funding_payment(pool, payment_amount)
                    /\ funding_events' = funding_events + 1
                    /\ last' = Outcome("process_funding_payment", OK)
          ELSE LET d == deduct_funding_payment(pool, payment_amount) IN
               IF d.err # OK
               THEN /\ last' = Outcome("process_funding_payment", d.err)
                    /\ UNCHANGED <<pool, policies, funding_events>>
               ELSE /\ pool' = d.pool
                    /\ policies' = [policies EXCEPT ![pid] = credit_collateral(policy, payment_amount)]
                    /\ funding_events' = funding_events + 1
                    /\ last' = Outcome("process_funding_payment", OK)
    /\ UNCHANGED <<lp_tokens, registry, claims, funding_rates, epoch, oracle_vars, risk_vars>>

process_funding_payment(pid, funding_rate) ==
    process_funding_payment_within(MaxFundingEvents, pid, funding_rate)

\* the epoch of the transaction context moves forward between transactions
advance_epoch(d) ==
    /\ epoch + d <= MaxEpoch
    /\ epoch' = epoch + d
    /\ last' = Outcome("advance_epoch", OK)
    /\ UNCHANGED <<pool, lp_tokens, policies, registry, claims, funding_rates, funding_events, oracle_vars, risk_vars>>

(* ================= claim_processor / claim_processor_updated =========== *)

\* a u128 oracle value hi * 2^64 + lo; `as u64` aborts unless it fits in 64 bits
U128(hi, lo) == [hi |-> hi, lo |-> lo]
fits_u64(v) == v.hi = 0
as_u64(v) == v.lo

OracleValues == {U128(0, v) : v \in ObservedValues} \cup {U128(1, 0)}

\* switchboard_oracle_integration::AggregatedData, as read by get_aggregated_data_details
AggregatedDataInputs ==
    [location : OracleLocations, data_type : OracleDataTypes,
     value : OracleValues, sources_count : SourceCounts]

\* oracle_aggregator::AggregatedData (u64 value)
LegacyAggregatedDataInputs ==
    [location : OracleLocations, data_type : OracleDataTypes,
     value : ObservedValues, sources_count : SourceCounts]

\* a Switchboard aggregator: the (location, data_type) it is registered for in
\* the OracleFeedRegistry and its current result
AggregatorInputs ==
    [location : OracleLocations, data_type : OracleDataTypes,
     value : OracleValues, decimal_places : DecimalPlaces]

\* a trigger evaluation that reads an undefined operator as "less than"
trigger_met_default_less(trigger_operator, oracle_value_u64, trigger_threshold) ==
    IF trigger_operator = 1 THEN oracle_value_u64 >= trigger_threshold
    ELSE IF trigger_operator = 2
    THEN LET diff == IF oracle_value_u64 > trigger_threshold
                     THEN oracle_value_u64 - trigger_threshold
                     ELSE trigger_threshold - oracle_value_u64
         IN diff <= (trigger_threshold \div 100)
    ELSE oracle_value_u64 <= trigger_threshold

\* trigger evaluation of claim_processor_updated
trigger_met(trigger_operator, oracle_value_u64, trigger_threshold) ==
    IF trigger_operator = 0 THEN oracle_value_u64 <= trigger_threshold
    ELSE IF trigger_operator = 1 THEN oracle_value_u64 >= trigger_threshold
    ELSE IF trigger_operator = 2
    THEN LET diff == IF oracle_value_u64 > trigger_threshold
                     THEN oracle_value_u64 - trigger_threshold
                     ELSE trigger_threshold - oracle_value_u64
         IN diff <= (trigger_threshold \div 100)
    ELSE FALSE

\* trigger evaluation of claim_processor::process_claim
legacy_trigger_met(value, trigger_threshold) == value <= trigger_threshold

\* a status computation that leaves an untriggered claim Pending
claim_status_pending(met) == IF met THEN 1 ELSE 0

claim_status(met) == IF met THEN 1 ELSE 2

claim_payout_amount(met, coverage_amount) == IF met THEN coverage_amount ELSE 0

\* Claim of claim_processor_updated
Claim(pid, policy, actual_value, decimal_places, met, sources) ==
    [policy_id |-> pid,
     owner |-> policy.owner,
     trigger_value |-> policy.trigger_threshold,
     actual_value |-> actual_value,
     decimal_places |-> decimal_places,
     payout_amount |-> claim_payout_amount(met, policy.coverage_amount),
     processed_at |-> epoch,
     status |-> claim_status(met),
     oracle_sources |-> sources]

\* Claim of claim_processor
LegacyClaim(pid, policy, actual_value, met) ==
    [policy_id |-> pid,
     owner |-> policy.owner,
     trigger_value |-> policy.trigger_threshold,
     actual_value |-> actual_value,
     payout_amount |-> claim_payout_amount(met, policy.coverage_amount),
     processed_at |-> epoch,
     status |-> claim_status(met)]

\* a settlement that keeps the claim record of a transaction whose payout aborted
settle_claim_partial(pl, cl, claim) ==
    IF claim.status = 1
    THEN LET p == process_claim_payout(pl, claim.payout_amount) IN
         IF p.err # OK
         THEN [err |-> p.err, pool |-> pl, claims |-> cl (+) SetToBag({claim})]
         ELSE [err |-> OK, pool |-> p.pool, claims |-> cl (+) SetToBag({claim})]
    ELSE [err |-> OK, pool |-> pl, claims |-> cl (+) SetToBag({claim})]

\* a settlement that records an approved claim without taking the payout from the pool
settle_claim_unpaid(pl, cl, claim) ==
    [err |-> OK, pool |-> pl, claims |-> cl (+) SetToBag({claim})]

\* payout of an approved claim and transfer of the claim record to the owner;
\* an abort of the payout aborts the transaction that created the record
settle_claim(pl, cl, claim) ==
    IF claim.status = 1
    THEN LET p == process_claim_payout(pl, claim.payout_amount) IN
         IF p.err # OK
         THEN [err |-> p.err, pool |-> pl, claims |-> cl]
         ELSE [err |-> OK, pool |-> p.pool, claims |-> cl (+) SetToBag({claim})]
    ELSE [err |-> OK, pool |-> pl, claims |-> cl (+) SetToBag({claim})]

process_claim_with_aggregated_data(pid, oracle_data) ==
    /\ pid \in PolicyIds
    /\ BagCardinality(claims) < MaxClaims
    /\ LET policy == policies[pid]
           details == get_policy_details(policy)
       IN IF ~details[7]
          THEN /\ last' = Outcome("process_claim_with_aggregated_data", PolicyInactive)
               /\ UNCHANGED <<pool, claims>>
          ELSE IF details[2] # oracle_data.location \/ details[3] # oracle_data.data_type
          THEN /\ last' = Outcome("process_claim_with_aggregated_data", OracleMismatch)
               /\ UNCHANGED <<pool, claims>>
          ELSE IF ~fits_u64(oracle_data.value)
          THEN /\ last' = Outcome("process_claim_with_aggregated_data", ArithmeticError)
               /\ UNCHANGED <<pool, claims>>
          ELSE LET met == trigger_met(get_trigger_operator(policy),
                                      as_u64(oracle_data.value), details[5])
                   r == settle_claim(pool, claims,
                            Claim(pid, policy, oracle_data.value, 8, met,
                                  oracle_data.sources_count))
               IN /\ last' = Outcome("process_claim_with_aggregated_data", r.err)
                  /\ pool' = r.pool
                  /\ claims' = r.claims
    /\ UNCHANGED <<lp_tokens, policies, registry, funding_rates, funding_events, epoch, oracle_vars, risk_vars>>

process_claim_with_aggregator(pid, aggregator) ==
    /\ pid \in PolicyIds
    /\ BagCardinality(claims) < MaxClaims
    /\ LET policy == policies[pid]
           details == get_policy_details(policy)
       IN IF ~details[7]
          THEN /\ last' = Outcome("process_claim_with_aggregator", PolicyInactive)
               /\ UNCHANGED <<pool, claims>>
          ELSE IF ~fits_u64(aggregator.value)
          THEN /\ last' = Outcome("process_claim_with_aggregator", ArithmeticError)
               /\ UNCHANGED <<pool, claims>>
          ELSE LET met == trigger_met(get_trigger_operator(policy),
                                      as_u64(aggregator.value), details[5])
                   r == settle_claim(pool, claims,
                            Claim(pid, policy, aggregator.value,
                                  aggregator.decimal_places, met, 1))
               IN /\ last' = Outcome("process_claim_with_aggregator", r.err)
                  /\ pool' = r.pool
                  /\ claims' = r.claims
    /\ UNCHANGED <<lp_tokens, policies, registry, funding_rates, funding_events, epoch, oracle_vars, risk_vars>>

process_claim(pid, oracle_data) ==
    /\ pid \in PolicyIds
    /\ BagCardinality(claims) < MaxClaims
    /\ LET policy == policies[pid] IN
       IF policy.location # oracle_data.location \/ policy.peril_type # oracle_data.data_type
       THEN /\ last' = Outcome("process_claim", OracleMismatch)
            /\ UNCHANGED <<pool, claims>>
       ELSE LET met == legacy_trigger_met(oracle_data.value, policy.trigger_threshold)
                r == settle_claim(pool, claims,
                         LegacyClaim(pid, policy, oracle_data.value, met))
            IN /\ last' = Outcome("process_claim", r.err)
               /\ pool' = r.pool
               /\ claims' = r.claims
    /\ UNCHANGED <<lp_tokens, policies, registry, funding_rates, funding_events, epoch, oracle_vars, risk_vars>>

(* ========================= oracle aggregation ========================= *)
(* switchboard_oracle (claim_processor.move), its variant                  *)
(* switchboard_oracle_integration and oracle_aggregator.  The two          *)
(* switchboard modules keep the same tables (feed id -> data type, feed id *)
(* -> location); they are modelled by one registry, a sequence whose       *)
(* index is the feed id.  Feed names are fresh, so table::add never        *)
(* aborts on a duplicate key.                                              *)

MaxFeeds == 2
MaxAggregates == 1
MaxBatch == 2

FeedIds == 1..(MaxFeeds + 1)
FeedLocations == {"east-africa", "southeast-asia"}
FeedDataTypes == {"rainfall", "temperature"}
ReadingValues == {0, 1, 21}
OracleSources == {"alice", "bob"}

EmptyReadingSet == "EmptyReadingSet"
LengthMismatch == "LengthMismatch"
UnregisteredFeed == "UnregisteredFeed"
MismatchedFeed == "MismatchedFeed"

\* sequences over S of length 0..n
SeqsUpTo(S, n) == UNION {[1..k -> S] : k \in 0..n}

FeedIdBatches == SeqsUpTo(FeedIds, MaxBatch)
ValueBatches == SeqsUpTo(ReadingValues, MaxBatch)
TimestampBatches == SeqsUpTo({0}, MaxBatch)

\* the parallel vectors handed to aggregate_data
FeedBatches ==
    [feed_ids : FeedIdBatches, feed_values : ValueBatches, feed_timestamps : TimestampBatches]

\* readings as the oracles submit them to oracle_aggregator::submit_data
OracleDataInputs ==
    [location : FeedLocations, data_type : FeedDataTypes, value : ReadingValues, source : OracleSources]

OracleDataBatches == SeqsUpTo(OracleDataInputs, MaxBatch)

ValuesOf(rs) == [i \in DOMAIN rs |-> rs[i].value]
SourcesOf(rs) == [i \in DOMAIN rs |-> rs[i].source]

\* register_feed: the new feed object gets a fresh id
register_feed(data_type, location) ==
    /\ Len(feed_registry) < MaxFeeds
    /\ feed_registry' = Append(feed_registry, [data_type |-> data_type, location |-> location])
    /\ last' = Outcome("register_feed", OK)
    /\ UNCHANGED <<settlement_vars, aggregated, input_vars, risk_vars>>

\* the registration loop of aggregate_data, from feed i on: the first feed
\* that is not registered, or is registered for another data type or
\* location, aborts the call
RECURSIVE verify_feeds(_, _, _, _, _)
verify_feeds(reg, feed_ids, location, data_type, i) ==
    IF i > Len(feed_ids) THEN OK
    ELSE IF feed_ids[i] \notin DOMAIN reg THEN UnregisteredFeed
    ELSE IF reg[feed_ids[i]].data_type # data_type THEN MismatchedFeed
    ELSE IF reg[feed_ids[i]].location # location THEN MismatchedFeed
    ELSE verify_feeds(reg, feed_ids, location, data_type, i + 1)

\* inner loop of the bubble sort: positions j .. limit
RECURSIVE bubble_pass(_, _, _)
bubble_pass(values, j, limit) ==
    IF j > limit THEN values
    ELSE bubble_pass(IF values[j] > values[j + 1]
                     THEN [values EXCEPT ![j] = values[j + 1], ![j + 1] = values[j]]
                     ELSE values,
                     j + 1, limit)

\* outer loop of the bubble sort: i counts the passes made (0-based)
RECURSIVE bubble_sort_from(_, _)
bubble_sort_from(values, i) ==
    IF i >= Len(values) THEN values
    ELSE bubble_sort_from(bubble_pass(values, 1, Len(values) - i - 1), i + 1)

bubble_sort(values) == bubble_sort_from(values, 0)

\* a median that takes the upper middle value for an even count
median_value_upper(values) == values[(Len(values) \div 2) + 1]

\* median of a sorted vector (1-based positions)
median_value(values) ==
    LET n == Len(values) IN
    IF n % 2 = 0
    THEN (values[n \div 2] + values[(n \div 2) + 1]) \div 2
    ELSE values[(n \div 2) + 1]

abs_diff(a, b) == IF a > b THEN a - b ELSE b - a

RECURSIVE sum_deviation(_, _, _)
sum_deviation(values, centre, i) ==
    IF i > Len(values) THEN 0
    ELSE abs_diff(values[i], centre) + sum_deviation(values, centre, i + 1)

\* a confidence that tests the zero median before the zero deviation
calculate_confidence_zero_first(values, median) ==
    LET n == Len(values)
        avg_deviation == sum_deviation(values, median, 1) \div n
    IN IF n <= 1 THEN 10000
       ELSE IF median = 0 THEN 5000
       ELSE IF avg_deviation = 0 THEN 10000
       ELSE LET deviation_percentage == (avg_deviation * 10000) \div median
            IN IF deviation_percentage >= 10000 THEN 1000
               ELSE 10000 - deviation_percentage

\* a confidence that rates a lone source as medium
calculate_confidence_lone_medium(values, median) ==
    LET n == Len(values)
        avg_deviation == sum_deviation(values, median, 1) \div n
    IN IF n <= 1 THEN 5000
       ELSE IF avg_deviation = 0 THEN 10000
       ELSE IF median = 0 THEN 5000
       ELSE LET deviation_percentage == (avg_deviation * 10000) \div median
            IN IF deviation_percentage >= 10000 THEN 1000
               ELSE 10000 - deviation_percentage

\* calculate_confidence: average absolute deviation from the median, as a
\* fraction of the median in basis points, taken off 10000
calculate_confidence(values, median) ==
    LET n == Len(values)
        avg_deviation == sum_deviation(values, median, 1) \div n
    IN IF n <= 1 THEN 10000
       ELSE IF avg_deviation = 0 THEN 10000
       ELSE IF median = 0 THEN 5000
       ELSE LET deviation_percentage == (avg_deviation * 10000) \div median
            IN IF deviation_percentage >= 10000 THEN 1000
               ELSE 10000 - deviation_percentage

\* switchboard_oracle::aggregate_data (claim_processor.move)
aggregate_data(location, data_type, feed_ids, feed_values, feed_timestamps) ==
    /\ Cardinality(aggregated) < MaxAggregates
    /\ LET num_feeds == Len(feed_ids)
           values == bubble_sort(feed_values)
           checked == verify_feeds(feed_registry, feed_ids, location, data_type, 1)
       IN IF num_feeds = 0
          THEN /\ last' = Outcome("aggregate_data", EmptyReadingSet)
               /\ UNCHANGED aggregated
          ELSE IF num_feeds # Len(feed_values) \/ num_feeds # Len(feed_timestamps)
          THEN /\ last' = Outcome("aggregate_data", LengthMismatch)
               /\ UNCHANGED aggregated
          ELSE IF checked # OK
          THEN /\ last' = Outcome("aggregate_data", checked)
               /\ UNCHANGED aggregated
          ELSE /\ aggregated' = aggregated \cup
                      {[module |-> "switchboard_oracle",
                        location |-> location,
                        data_type |-> data_type,
                        value |-> median_value(values),
                        timestamp |-> epoch,
                        confidence |-> calculate_confidence(values, median_value(values)),
                        num_sources |-> num_feeds,
                        sources |-> feed_ids]}
               /\ last' = Outcome("aggregate_data", OK)
    /\ UNCHANGED <<settlement_vars, feed_registry, input_vars, risk_vars>>

RECURSIVE sum_values(_, _)
sum_values(values, i) ==
    IF i > Len(values) THEN 0 ELSE values[i] + sum_values(values, i + 1)

RECURSIVE sum_squares(_, _, _)
sum_squares(values, mean, i) ==
    IF i > Len(values) THEN 0
    ELSE abs_diff(values[i], mean) * abs_diff(values[i], mean) + sum_squares(values, mean, i + 1)

mean_value(values) == sum_values(values, 1) \div Len(values)

\* "(variance_sum / n) ^ (1/2)": ^ is bitwise xor and 1/2 is 0, so the
\* result is the variance itself
stdev_value(values) == sum_squares(values, mean_value(values), 1) \div Len(values)

\* switchboard_oracle_integration::aggregate_multiple_feeds: the value of
\* each aggregator is read from the aggregator object
aggregate_multiple_feeds(aggregators, current_values, location, data_type) ==
    /\ Cardinality(aggregated) < MaxAggregates
    /\ Len(current_values) = Len(aggregators)
    /\ LET num_feeds == Len(aggregators)
           values == bubble_sort(current_values)
           checked == verify_feeds(feed_registry, aggregators, location, data_type, 1)
       IN IF num_feeds = 0
          THEN /\ last' = Outcome("aggregate_multiple_feeds", EmptyReadingSet)
               /\ UNCHANGED aggregated
          ELSE IF checked # OK
          THEN /\ last' = Outcome("aggregate_multiple_feeds", checked)
               /\ UNCHANGED aggregated
          ELSE /\ aggregated' = aggregated \cup
                      {[module |-> "switchboard_oracle_integration",
                        location |-> location,
                        data_type |-> data_type,
                        value |-> median_value(values),
                        decimal_places |-> 8,
                        timestamp |-> epoch,
                        mean |-> mean_value(values),
                        stdev |-> stdev_value(values),
                        min_value |-> values[1],
                        max_value |-> values[Len(values)],
                        sources_count |-> num_feeds]}
               /\ last' = Outcome("aggregate_multiple_feeds", OK)
    /\ UNCHANGED <<settlement_vars, feed_registry, input_vars, risk_vars>>

\* oracle_aggregator::aggregate_data: the average of the values handed in
oracle_aggregator_aggregate_data(location, data_type, values, sources) ==
    /\ Cardinality(aggregated) < MaxAggregates
    /\ LET values_len == Len(values)
       IN IF values_len = 0
          THEN /\ last' = Outcome("oracle_aggregator::aggregate_data", EmptyReadingSet)
               /\ UNCHANGED aggregated
          ELSE IF values_len # Len(sources)
          THEN /\ last' = Outcome("oracle_aggregator::aggregate_data", LengthMismatch)
               /\ UNCHANGED aggregated
          ELSE /\ aggregated' = aggregated \cup
                      {[module |-> "oracle_aggregator",
                        location |-> location,
                        data_type |-> data_type,
                        value |-> sum_values(values, 1) \div values_len,
                        timestamp |-> epoch,
                        sources_count |-> values_len]}
               /\ last' = Outcome("oracle_aggregator::aggregate_data", OK)
    /\ UNCHANGED <<settlement_vars, feed_registry, input_vars, risk_vars>>

(* ============================= risk_model ============================= *)

MaxModels == 1
MaxQuotes == 1

BasePremiumRates == {500}
QuoteLocations == {"east-africa", "unknown-region"}
QuotePerils == {"drought", "unknown-peril"}
QuoteCoverageAmounts == {0, 1000, 10000, 50000, 100000}
QuoteMonths == 0..13
LocationFactors == {80}

\* the factor tables create_risk_model fills in
default_location_factors ==
    [l \in {"east-africa", "southeast-asia", "central-america", "south-pacific"} |->
        CASE l = "east-africa" -> 120
          [] l = "southeast-asia" -> 150
          [] l = "central-america" -> 130
          [] l = "south-pacific" -> 140]

default_peril_factors ==
    [p \in {"drought", "flood", "heat", "wind"} |->
        CASE p = "drought" -> 130
          [] p = "flood" -> 160
          [] p = "heat" -> 120
          [] p = "wind" -> 140]

default_seasonal_factors ==
    [m \in 1..12 |-> <<100, 100, 110, 120, 130, 140, 150, 160, 150, 130, 110, 100>>[m]]

default_coverage_factors ==
    [c \in {1000, 5000, 10000, 50000, 100000} |->
        CASE c = 1000 -> 120
          [] c = 5000 -> 110
          [] c = 10000 -> 100
          [] c = 50000 -> 90
          [] c = 100000 -> 85]

create_risk_model(sender, base_premium_rate) ==
    /\ Cardinality(risk_models) < MaxModels
    /\ risk_models' = risk_models \cup
           {[base_premium_rate |-> base_premium_rate,
             location_factors |-> default_location_factors,
             peril_factors |-> default_peril_factors,
             seasonal_factors |-> default_seasonal_factors,
             coverage_factors |-> default_coverage_factors,
             created_by |-> sender]}
    /\ last' = Outcome("create_risk_model", OK)
    /\ UNCHANGED <<settlement_vars, oracle_vars, quotes>>

\* insert the entry if absent, overwrite it if present
upsert(tbl, key, value) ==
    [k \in (DOMAIN tbl) \cup {key} |-> IF k = key THEN value ELSE tbl[k]]

update_location_factor(sender, model, location, factor) ==
    /\ model \in risk_models
    /\ IF model.created_by # sender
       THEN /\ last' = Outcome("update_location_factor", Unauthorized)
            /\ UNCHANGED risk_models
       ELSE /\ risk_models' = (risk_models \ {model}) \cup
                   {[model EXCEPT !.location_factors = upsert(@, location, factor)]}
            /\ last' = Outcome("update_location_factor", OK)
    /\ UNCHANGED <<settlement_vars, oracle_vars, quotes>>

\* table lookup with the neutral default 100 for a missing key
factor_or_default(tbl, key) == IF key \in DOMAIN tbl THEN tbl[key] ELSE 100

coverage_tiers == <<1000, 5000, 10000, 50000, 100000>>

\* the nearest-tier scan from tier i on: a strictly smaller difference replaces
\* the tier found so far
RECURSIVE closest_tier_from(_, _, _, _)
closest_tier_from(coverage_amount, i, min_diff, closest) ==
    IF i > Len(coverage_tiers) THEN closest
    ELSE LET tier == coverage_tiers[i]
             diff == IF tier > coverage_amount
                     THEN tier - coverage_amount ELSE coverage_amount - tier
         IN IF diff < min_diff
            THEN closest_tier_from(coverage_amount, i + 1, diff, tier)
            ELSE closest_tier_from(coverage_amount, i + 1, min_diff, closest)

closest_tier(coverage_amount) == closest_tier_from(coverage_amount, 1, 1000000000, 10000)

\* an adjustment taken in full instead of as the difference to the base premium
premium_adjustment_gross(base_premium, factor) == (base_premium * factor) \div 100

\* one adjustment, before the u64 range check of the subtraction
premium_adjustment(base_premium, factor) == (base_premium * factor) \div 100 - base_premium

\* (final_premium * 10000) / (coverage_amount * 365) for coverage_amount > 0:
\* floor(x / (c * 365)) is taken as floor(floor(x / c) / 365), the same
\* number, so that no intermediate product leaves the 32-bit integers
daily_funding_rate(final_premium, coverage_amount) ==
    ((final_premium * 10000) \div coverage_amount) \div 365

\* calculate_premium: a u64 subtraction below zero and a division by zero
\* (coverage_amount * 365 = 0) abort the call
calculate_premium(model, location, peril_type, coverage_amount, current_month) ==
    /\ model \in risk_models
    /\ Cardinality(quotes) < MaxQuotes
    /\ LET location_factor == factor_or_default(model.location_factors, location)
           peril_factor == factor_or_default(model.peril_factors, peril_type)
           month == IF current_month >= 1 /\ current_month <= 12 THEN current_month ELSE 1
           seasonal_factor == factor_or_default(model.seasonal_factors, month)
           coverage_factor == factor_or_default(model.coverage_factors, closest_tier(coverage_amount))
           base_premium == (coverage_amount * model.base_premium_rate) \div 10000
           location_adjustment == premium_adjustment(base_premium, location_factor)
           peril_adjustment == premium_adjustment(base_premium, peril_factor)
           seasonal_adjustment == premium_adjustment(base_premium, seasonal_factor)
           coverage_adjustment == premium_adjustment(base_premium, coverage_factor)
           final_premium == base_premium + location_adjustment + peril_adjustment
                              + seasonal_adjustment + coverage_adjustment
       IN IF \/ location_adjustment < 0
             \/ peril_adjustment < 0
             \/ seasonal_adjustment < 0
             \/ coverage_adjustment < 0
          THEN /\ last' = Outcome("calculate_premium", ArithmeticError)
               /\ UNCHANGED quotes
          ELSE IF coverage_amount = 0
          THEN /\ last' = Outcome("calculate_premium", ArithmeticError)
               /\ UNCHANGED quotes
          ELSE /\ quotes' = quotes \cup
                      {[location |-> location,
                        peril_type |-> peril_type,
                        coverage_amount |-> coverage_amount,
                        base_premium |-> base_premium,
                        location_adjustment |-> location_adjustment,
                        peril_adjustment |-> peril_adjustment,
                        seasonal_adjustment |-> seasonal_adjustment,
                        coverage_adjustment |-> coverage_adjustment,
                        final_premium |-> final_premium,
                        funding_rate |-> daily_funding_rate(final_premium, coverage_amount)]}
               /\ last' = Outcome("calculate_premium", OK)
    /\ UNCHANGED <<settlement_vars, oracle_vars, risk_models>>

(* =========================== specifications =========================== *)

Init ==
    /\ pool = create_pool
    /\ lp_tokens = EmptyBag
    /\ policies = <<>>
    /\ registry = [total_policies |-> 0, total_coverage |-> 0]
    /\ claims = EmptyBag
    /\ funding_rates = {}
    /\ funding_events = 0
    /\ epoch = 0
    /\ last = Outcome("init", OK)
    /\ feed_registry = <<>>
    /\ aggregated = {}
    /\ batch = [feed_ids |-> <<>>, feed_values |-> <<>>, feed_timestamps |-> <<>>]
    /\ readings = <<>>
    /\ risk_models = {}
    /\ quotes = {}

PoolNext ==
    \/ \E s \in Addr, a \in DepositAmounts : add_liquidity(s, a)
    \/ \E s \in Addr, t \in BagToSet(lp_tokens) : remove_liquidity(s, t)

CreateNext ==
    \E s \in PolicyCreators, l \in PolicyLocations, p \in PolicyPerils,
       c \in CoverageAmounts, t \in Thresholds, o \in Operators,
       k \in CollateralAmounts : create_policy(s, l, p, c, t, o, k)

TerminateNext ==
    \E s \in Addr, pid \in PolicyIds : terminate_policy(s, pid)

CollateralNext ==
    \/ \E s \in Addr, pid \in PolicyIds, a \in CollateralDeltas : add_collateral(s, pid, a)
    \/ \E s \in Addr, pid \in PolicyIds, a \in CollateralDeltas : remove_collateral(s, pid, a)

RateNext ==
    \/ \E v \in InsuredValues : update_funding_rate(v)
    \/ \E pid \in PolicyIds, fr \in funding_rates : process_funding_payment(pid, fr)

EpochNext ==
    \E d \in EpochJumps : advance_epoch(d)

BookingNext ==
    \E pid \in PolicyIds, fr \in funding_rates :
       policy_process_funding_payment(pid, fr.rate, fr.direction)

FundingNext ==
    \/ RateNext
    \/ EpochNext
    \/ BookingNext

ClaimNext ==
    \/ \E pid \in PolicyIds, d \in AggregatedDataInputs :
          process_claim_with_aggregated_data(pid, d)
    \/ \E pid \in PolicyIds, a \in AggregatorInputs :
          process_claim_with_aggregator(pid, a)
    \/ \E pid \in PolicyIds, d \in LegacyAggregatedDataInputs :
          process_claim(pid, d)

\* the whole package
Next ==
    \/ PoolNext
    \/ CreateNext
    \/ TerminateNext
    \/ CollateralNext
    \/ FundingNext
    \/ ClaimNext

Spec == Init /\ [][Next]_vars

\* claim settlement: pool, policy creation and termination, the claim entry points
NextClaims ==
    \/ PoolNext
    \/ CreateNext
    \/ TerminateNext
    \/ ClaimNext

SpecClaims == Init /\ [][NextClaims]_vars

\* a claim settled against an aggregate that carries the policy's own location
\* and peril and a value below the threshold
MatchingClaimNext ==
    \E pid \in PolicyIds, d \in AggregatedDataInputs :
       /\ d.location = policies[pid].location
       /\ d.data_type = policies[pid].peril_type
       /\ fits_u64(d.value)
       /\ as_u64(d.value) < policies[pid].trigger_threshold
       /\ process_claim_with_aggregated_data(pid, d)

\* policies whose trigger is LESS_THAN
CreateLessThanNext ==
    \E s \in PolicyCreators, l \in PolicyLocations, p \in PolicyPerils,
       c \in CoverageAmounts, t \in Thresholds, k \in CollateralAmounts :
       create_policy(s, l, p, c, t, 0, k)

\* the pool and everything that moves its liquidity: deposits, withdrawals,
\* claim payouts and funding settlement
NextPool ==
    \/ PoolNext
    \/ CreateLessThanNext
    \/ RateNext
    \/ MatchingClaimNext

SpecPool == Init /\ [][NextPool]_vars

\* the policy lifecycle: creation, collateral, termination, funding settlement
\* and claim settlement, with one liquidity provider funding the pool
NextPolicy ==
    \/ \E a \in DepositAmounts : add_liquidity("bob", a)
    \/ CreateLessThanNext
    \/ CollateralNext
    \/ TerminateNext
    \/ FundingNext
    \/ MatchingClaimNext

SpecPolicy == Init /\ [][NextPolicy]_vars

\* deposits of amounts that do not divide one another
OddDepositAmounts == {3, 7, 11, 10000}

\* the pool under deposits and withdrawals only: no payout, no funding settlement
NextDeposits ==
    \/ \E s \in Addr, a \in OddDepositAmounts : add_liquidity(s, a)
    \/ \E s \in Addr, t \in BagToSet(lp_tokens) : remove_liquidity(s, t)

SpecDeposits == Init /\ [][NextDeposits]_vars

\* steps of the epoch that reach the last valid epoch of a rate and the one after it
WindowJumps == {1, 24}

\* funding rates over time: policies, rate computation, settlement and the epoch
NextWindow ==
    \/ CreateLessThanNext
    \/ RateNext
    \/ \E d \in WindowJumps : advance_epoch(d)

SpecWindow == Init /\ [][NextWindow]_vars

\* insured values on both sides of and on the utilization marks of 50% and 80%,
\* and the smallest u64 whose product with 10000 leaves 64 bits
RateInsuredValues ==
    {Wide(0, v) : v \in {0, 4000, 5000, 6000, 8000, 9000}} \cup {Wide(1844674, 407370956)}

\* rate computation over pools of different liquidity
NextRate ==
    \/ PoolNext
    \/ \E v \in RateInsuredValues : update_funding_rate(v)

SpecRate == Init /\ [][NextRate]_vars

(* ============================== properties ============================ *)

ClaimOps == {"process_claim", "process_claim_with_aggregated_data",
             "process_claim_with_aggregator"}

ClaimSet == BagToSet(claims)

\* number of Claim records held for policy pid in the bag of claims cl
ClaimCount(cl, pid) ==
    LET S == {c \in BagToSet(cl) : c.policy_id = pid}
    IN SumFn([c \in S |-> CopiesIn(c, cl)], S)

\* total paid out of the pool for policy pid
PaidOut(pid) ==
    LET S == {c \in ClaimSet : c.policy_id = pid}
    IN SumFn([c \in S |-> CopiesIn(c, claims) * c.payout_amount], S)

\* the call aborted: its kind is reported and no object changed
Aborts(err) ==
    /\ last'.err = err
    /\ UNCHANGED <<pool, lp_tokens, policies, registry, claims>>

\* C1: the pool never pays more than coverage_amount in total for one policy
C1_NoDoublePayout ==
    \A pid \in PolicyIds : PaidOut(pid) <= policies[pid].coverage_amount

\* C2: a claim call that would approve while the pool holds less than the
\* coverage amount aborts with InsufficientLiquidity, through every entry point:
\* no Claim record, no payout, pool, shares and policy unchanged
C2_ShortfallAbortsAtomically ==
    [][ /\ \A pid \in PolicyIds, d \in AggregatedDataInputs :
             ( /\ process_claim_with_aggregated_data(pid, d)
               /\ policies[pid].active
               /\ d.location = policies[pid].location
               /\ d.data_type = policies[pid].peril_type
               /\ fits_u64(d.value)
               /\ trigger_met(policies[pid].trigger_operator, as_u64(d.value),
                              policies[pid].trigger_threshold)
               /\ pool.total_liquidity < policies[pid].coverage_amount )
             => Aborts(InsufficientLiquidity)
        /\ \A pid \in PolicyIds, a \in AggregatorInputs :
             ( /\ process_claim_with_aggregator(pid, a)
               /\ policies[pid].active
               /\ fits_u64(a.value)
               /\ trigger_met(policies[pid].trigger_operator, as_u64(a.value),
                              policies[pid].trigger_threshold)
               /\ pool.total_liquidity < policies[pid].coverage_amount )
             => Aborts(InsufficientLiquidity)
        /\ \A pid \in PolicyIds, d \in LegacyAggregatedDataInputs :
             ( /\ process_claim(pid, d)
               /\ d.location = policies[pid].location
               /\ d.data_type = policies[pid].peril_type
               /\ legacy_trigger_met(d.value, policies[pid].trigger_threshold)
               /\ pool.total_liquidity < policies[pid].coverage_amount )
             => Aborts(InsufficientLiquidity)
        /\ (last'.op \in ClaimOps /\ last'.err = InsufficientLiquidity)
             => UNCHANGED <<pool, lp_tokens, policies, registry, claims>>
      ]_vars

\* a claim call has just aborted on a pool short of the coverage amount
C2_Witness ==
    /\ last.op \in ClaimOps
    /\ last.err = InsufficientLiquidity
    /\ \E pid \in PolicyIds : pool.total_liquidity < policies[pid].coverage_amount

\* C3: the share balances of all providers add up to total_shares
C3_SharesSumToTotal ==
    SumFn(pool.lp_shares, DOMAIN pool.lp_shares) = pool.total_shares

\* two providers hold shares after a payout and a funding settlement
C3_Witness ==
    /\ Cardinality({a \in DOMAIN pool.lp_shares : pool.lp_shares[a] > 0}) = 2
    /\ claims # EmptyBag
    /\ funding_events > 0

\* C4: a pool without shares holds no liquidity
C4_NoSharesNoLiquidity ==
    pool.total_shares = 0 => pool.total_liquidity = 0

C6_TerminatedIsFinal ==
    [][ \A pid \in PolicyIds :
            ~policies[pid].active => policies'[pid] = policies[pid] ]_vars

\* C7: no claim call on a policy that is not Active creates a Claim record or
\* takes liquidity out of the pool
C7_InactivePolicyNoClaim ==
    [][ \A pid \in PolicyIds :
            ~policies[pid].active =>
                ClaimCount(claims', pid) = ClaimCount(claims, pid) ]_vars

\* the pool can pay the coverage of policy pid, so that a claim call on it can
\* abort only on the checks that precede the payout
Funded(pid) == pool.total_liquidity >= policies[pid].coverage_amount

\* C8: a claim call on an Active policy with a reading for another location or
\* peril aborts with OracleMismatch, creating no Claim record and leaving the
\* pool unchanged, through every entry point
C8_MismatchAborts ==
    [][ /\ \A pid \in PolicyIds, d \in AggregatedDataInputs :
             ( /\ process_claim_with_aggregated_data(pid, d)
               /\ policies[pid].active /\ Funded(pid)
               /\ (d.location # policies[pid].location
                     \/ d.data_type # policies[pid].peril_type) )
             => Aborts(OracleMismatch)
        /\ \A pid \in PolicyIds, a \in AggregatorInputs :
             ( /\ process_claim_with_aggregator(pid, a)
               /\ policies[pid].active /\ Funded(pid) /\ fits_u64(a.value)
               /\ (a.location # policies[pid].location
                     \/ a.data_type # policies[pid].peril_type) )
             => Aborts(OracleMismatch)
        /\ \A pid \in PolicyIds, d \in LegacyAggregatedDataInputs :
             ( /\ process_claim(pid, d)
               /\ policies[pid].active /\ Funded(pid)
               /\ (d.location # policies[pid].location
                     \/ d.data_type # policies[pid].peril_type) )
             => Aborts(OracleMismatch)
      ]_vars

\* the trigger rule of the three operators
TriggerRule(operator, observed, threshold) ==
    CASE operator = 0 -> observed <= threshold
      [] operator = 1 -> observed >= threshold
      [] operator = 2 ->
            (IF observed > threshold THEN observed - threshold
                                     ELSE threshold - observed)
                <= threshold \div 100

\* the observed value a Claim record was evaluated on
Observed(c) ==
    IF "decimal_places" \in DOMAIN c THEN as_u64(c.actual_value) ELSE c.actual_value

C10_ClaimRecordWellFormed ==
    \A c \in ClaimSet :
        /\ c.policy_id \in PolicyIds
        /\ c.status \in {1, 2}
        /\ c.status = 1 => c.payout_amount = policies[c.policy_id].coverage_amount
        /\ c.status = 2 => c.payout_amount = 0
        /\ c.owner = policies[c.policy_id].owner
        /\ c.trigger_value = policies[c.policy_id].trigger_threshold

\* an Approved and a Rejected claim have been recorded
C10_Witness ==
    /\ \E c \in ClaimSet : c.status = 1
    /\ \E c \in ClaimSet : c.status = 2

\* the claim records added by a step
NewClaims == BagToSet(claims' (-) claims)

\* C11: an Approved claim decreases total_liquidity by exactly the policy's
\* coverage_amount and changes no share balance and not total_shares; a
\* Rejected claim leaves total_liquidity, the share balances and total_shares
\* unchanged
C11_ClaimPoolEffect ==
    [][ \A c \in NewClaims :
          /\ c.status = 1 =>
               /\ pool'.total_liquidity
                    = pool.total_liquidity - policies[c.policy_id].coverage_amount
               /\ pool'.lp_shares = pool.lp_shares
               /\ pool'.total_shares = pool.total_shares
          /\ c.status # 1 => pool' = pool
      ]_vars

\* an Approved claim was paid from a pool in which two providers hold shares
C11_Witness ==
    /\ last.op \in ClaimOps /\ last.err = OK
    /\ \E c \in ClaimSet : c.status = 1
    /\ Cardinality({a \in DOMAIN pool.lp_shares : pool.lp_shares[a] > 0}) = 2
    /\ pool.total_liquidity < pool.total_shares

\* the share balance of a provider, zero without a table entry
SharesOf(pl, a) == IF a \in DOMAIN pl.lp_shares THEN pl.lp_shares[a] ELSE 0

\* C12: a deposit issues `amount` shares when total_shares = 0 and
\* floor(amount * total_shares / total_liquidity) otherwise, computed on the
\* pool before the deposit; it increases total_liquidity by amount, and the
\* depositor's balance and total_shares by the issued shares
C12_DepositIssuesShares ==
    [][ \A s \in Addr, a \in DepositAmounts :
          (add_liquidity(s, a) /\ last'.err = OK) =>
            LET issued == IF pool.total_shares = 0 THEN a
                          ELSE (a * pool.total_shares) \div pool.total_liquidity
            IN /\ pool'.total_liquidity = pool.total_liquidity + a
               /\ pool'.total_shares = pool.total_shares + issued
               /\ SharesOf(pool', s) = SharesOf(pool, s) + issued
               /\ \A o \in Addr \ {s} : SharesOf(pool', o) = SharesOf(pool, o)
               /\ lp_tokens' = lp_tokens (+) SetToBag({[owner |-> s, shares |-> issued]})
      ]_vars

\* a deposit into a pool whose liquidity and shares differ was priced
\* proportionally, and its shares were added to an existing balance
C12_Witness ==
    /\ last = Outcome("add_liquidity", OK)
    /\ \E t \in BagToSet(lp_tokens) :
          /\ t.shares \notin DepositAmounts
          /\ SharesOf(pool, t.owner) > t.shares

\* the shares carried by the outstanding LP tokens of a provider
TokenShares(a) ==
    LET S == {t \in BagToSet(lp_tokens) : t.owner = a}
    IN SumFn([t \in S |-> CopiesIn(t, lp_tokens) * t.shares], S)

BeforeDeposit(pl, a, shares) ==
    [pl EXCEPT !.total_liquidity = @ - a, !.total_shares = @ - shares]

\* token t was issued by the deposit of `a` that was the last operation
JustIssued(t, a) ==
    /\ last = Outcome("add_liquidity", OK)
    /\ a <= pool.total_liquidity
    /\ t.shares <= pool.total_shares
    /\ LET before == BeforeDeposit(pool, a, t.shares)
       IN /\ before.total_shares = 0 <=> before.total_liquidity = 0
          /\ calculate_shares(before, a) = t.shares

\* C14: for a sole depositor, a deposit immediately followed by the withdrawal
\* of the shares it issued returns exactly the amount deposited, from every
\* reachable pool state in which that depositor holds all outstanding shares
C14_RoundTripExact ==
    [][ \A s \in Addr, a \in DepositAmounts, t \in BagToSet(lp_tokens) :
          ( /\ JustIssued(t, a)
            /\ SharesOf(pool, s) = pool.total_shares
            /\ remove_liquidity(s, t)
            /\ last'.err = OK )
          => pool.total_liquidity - pool'.total_liquidity = a
      ]_vars

\* what provider a could claim from the pool: floor(shares * total_liquidity / total_shares)
Claimable(a) ==
    IF pool.total_shares = 0 THEN 0
    ELSE (SharesOf(pool, a) * pool.total_liquidity) \div pool.total_shares

\* the liquidity no provider can claim
Dust == pool.total_liquidity - SumFn([a \in Addr |-> Claimable(a)], Addr)

\* C15: after any sequence of n deposits and withdrawals with no payout,
\* total_liquidity differs from the sum of the providers' claimable amounts by
\* at most n; every outstanding LP token was issued by one of the n operations,
\* so the number of tokens is a lower bound of n
C15_DustBounded ==
    /\ Dust <= BagCardinality(lp_tokens)
    /\ 0 - Dust <= BagCardinality(lp_tokens)

\* a provider withdrew a deposit of 3 and left the pool to a provider holding 7
C15_Witness ==
    /\ last = Outcome("remove_liquidity", OK)
    /\ "alice" \in DOMAIN pool.lp_shares
    /\ SharesOf(pool, "alice") = 0
    /\ SharesOf(pool, "bob") = 7
    /\ Dust = 0

\* C16: add_collateral, remove_collateral and terminate_policy called by anyone
\* but the policy's owner abort with Unauthorized and leave the policy, the
\* registry and every balance unchanged
C16_NonOwnerRejected ==
    [][ \A s \in Addr, pid \in PolicyIds :
          s # policies[pid].owner =>
            /\ \A a \in CollateralDeltas :
                 (add_collateral(s, pid, a) \/ remove_collateral(s, pid, a)) =>
                   /\ last'.err = Unauthorized
                   /\ UNCHANGED <<policies, registry, pool, lp_tokens, claims>>
            /\ terminate_policy(s, pid) =>
                 /\ last'.err = Unauthorized
                 /\ UNCHANGED <<policies, registry, pool, lp_tokens, claims>>
      ]_vars

\* a stranger tried to withdraw collateral that the owner could have withdrawn
C16_Witness ==
    /\ last = Outcome("remove_collateral", Unauthorized)
    /\ \E pid \in PolicyIds, a \in CollateralDeltas :
          /\ policies[pid].active
          /\ a <= policies[pid].collateral_balance - policies[pid].margin_requirement

\* the aborts of remove_collateral's margin check: its assertion, or the
\* subtraction that computes the excess when the balance is already below the
\* margin requirement
MarginAborts == {BelowMarginRequirement, ArithmeticError}

\* policy p after a change of its collateral balance to b and of nothing else
WithCollateral(p, b) == [p EXCEPT !.collateral_balance = b]

Settled(pols, pl, pid) == pols[pid].collateral_balance + pl.total_liquidity

C19_RefusedWitness ==
    /\ last = Outcome("process_funding_payment", InsufficientFunds)
    /\ funding_events = 0

\* C20: a funding rate computed at time t has valid_until = t + 24; a
\* settlement attempted later than valid_until is rejected and changes neither
\* the policy nor the pool, a settlement at any time <= valid_until is accepted
C20_RateValidityWindow ==
    [][ /\ \A v \in InsuredValues :
             update_funding_rate(v) =>
               \A fr \in funding_rates' \ funding_rates :
                  fr.calculated_at = epoch /\ fr.valid_until = epoch + 24
        /\ \A pid \in PolicyIds, fr \in funding_rates :
             process_funding_payment(pid, fr) =>
               /\ epoch > fr.valid_until =>
                    /\ last'.err = StaleRate
                    /\ UNCHANGED <<policies, pool>>
               /\ epoch <= fr.valid_until => last'.err # StaleRate
      ]_vars

\* a settlement was accepted in the last valid epoch of a rate computed after epoch 0
C20_Witness ==
    /\ last = Outcome("process_funding_payment", OK)
    /\ funding_events > 0
    /\ \E fr \in funding_rates :
          /\ fr.calculated_at > 0
          /\ epoch = fr.calculated_at + 24

\* a settlement was rejected in the first epoch after the window
C20_StaleWitness ==
    /\ last = Outcome("process_funding_payment", StaleRate)
    /\ \E fr \in funding_rates : epoch = fr.valid_until + 1

\* C21: the rate computation never fails and, with utilization =
\* floor(total_insured_value * 10000 / total_liquidity) (10000 when the pool is
\* empty), returns rate 50 + floor((utilization - 8000) / 100), policyholders
\* pay, above 8000; rate floor((8000 - utilization) / 1000), pool pays, below
\* 5000; rate 0 from 5000 to 8000
C21_ComputeRateTotal ==
    [][ \A v \in RateInsuredValues :
          update_funding_rate(v) =>
            /\ last'.err = OK
            /\ v.hi = 0 =>
                 LET u == IF pool.total_liquidity = 0 THEN 10000
                          ELSE (v.lo * 10000) \div pool.total_liquidity
                 IN \E fr \in funding_rates' \ funding_rates :
                       /\ u > 8000 => fr.rate = 50 + ((u - 8000) \div 100) /\ fr.direction
                       /\ u < 5000 => fr.rate = (8000 - u) \div 1000 /\ ~fr.direction
                       /\ (5000 <= u /\ u <= 8000) => fr.rate = 0
      ]_vars

(* ----------------------- oracle aggregation --------------------------- *)

\* the readings at hand are drawn once: either feed readings for the
\* switchboard modules or submitted oracle data for oracle_aggregator
InitOracle ==
    /\ pool = create_pool
    /\ lp_tokens = EmptyBag
    /\ policies = <<>>
    /\ registry = [total_policies |-> 0, total_coverage |-> 0]
    /\ claims = EmptyBag
    /\ funding_rates = {}
    /\ funding_events = 0
    /\ epoch = 0
    /\ last = Outcome("init", OK)
    /\ feed_registry = <<>>
    /\ aggregated = {}
    /\ \/ batch \in FeedBatches /\ readings = <<>>
       \/ batch = [feed_ids |-> <<>>, feed_values |-> <<>>, feed_timestamps |-> <<>>]
          /\ readings \in OracleDataBatches
    /\ risk_models = {}
    /\ quotes = {}

\* feed registration and the three aggregation entry points
NextOracle ==
    \/ \E t \in FeedDataTypes, l \in FeedLocations : register_feed(t, l)
    \/ \E l \in FeedLocations, t \in FeedDataTypes :
          aggregate_data(l, t, batch.feed_ids, batch.feed_values, batch.feed_timestamps)
    \/ \E l \in FeedLocations, t \in FeedDataTypes :
          aggregate_multiple_feeds(batch.feed_ids, batch.feed_values, l, t)
    \/ \E l \in FeedLocations, t \in FeedDataTypes :
          oracle_aggregator_aggregate_data(l, t, ValuesOf(readings), SourcesOf(readings))

SpecOracle == InitOracle /\ [][NextOracle]_vars

\* the records of switchboard_oracle, the module that scores confidence
Scored == {a \in aggregated : a.module = "switchboard_oracle"}

\* C22: every AggregatedData record made from two or more sources has a
\* confidence between 1000 and 10000 inclusive
C22_ConfidenceInRange ==
    \A a \in Scored : a.num_sources >= 2 => a.confidence \in 1000..10000

\* every feed of the batch is registered for the declared location and data type
AllBelong(feed_ids, location, data_type) ==
    \A i \in DOMAIN feed_ids :
       /\ feed_ids[i] \in DOMAIN feed_registry
       /\ feed_registry[feed_ids[i]].location = location
       /\ feed_registry[feed_ids[i]].data_type = data_type

RegisteredElsewhere(id, location, data_type) ==
    /\ id \in DOMAIN feed_registry
    /\ \/ feed_registry[id].location # location
       \/ feed_registry[id].data_type # data_type

AllRegistered(feed_ids) == \A i \in DOMAIN feed_ids : feed_ids[i] \in DOMAIN feed_registry

\* the call was rejected for a mismatched feed and made no record
RejectsMismatch ==
    /\ last'.err = MismatchedFeed
    /\ UNCHANGED aggregated

\* C24: every aggregation entry point rejects with MismatchedFeed, making no
\* AggregatedData record, a batch that contains a reading of a feed
\* registered for (or a reading submitted for) another location or data type
\* than the declared pair
C24_MismatchedFeedRejected ==
    [][\A l \in FeedLocations, t \in FeedDataTypes :
          /\ ( /\ Len(batch.feed_values) = Len(batch.feed_ids)
               /\ Len(batch.feed_timestamps) = Len(batch.feed_ids)
               /\ AllRegistered(batch.feed_ids)
               /\ \E i \in DOMAIN batch.feed_ids : RegisteredElsewhere(batch.feed_ids[i], l, t)
               /\ aggregate_data(l, t, batch.feed_ids, batch.feed_values, batch.feed_timestamps) )
             => RejectsMismatch
          /\ ( /\ AllRegistered(batch.feed_ids)
               /\ \E i \in DOMAIN batch.feed_ids : RegisteredElsewhere(batch.feed_ids[i], l, t)
               /\ aggregate_multiple_feeds(batch.feed_ids, batch.feed_values, l, t) )
             => RejectsMismatch
          /\ ( /\ \E i \in DOMAIN readings : readings[i].location # l \/ readings[i].data_type # t
               /\ oracle_aggregator_aggregate_data(l, t, ValuesOf(readings), SourcesOf(readings)) )
             => RejectsMismatch]_vars

(* ----------------------------- risk_model ----------------------------- *)

\* the risk model, updates of its location factors and premium quotes
NextRisk ==
    \/ \E s \in Addr, r \in BasePremiumRates : create_risk_model(s, r)
    \/ \E s \in Addr, m \in risk_models, l \in QuoteLocations, f \in LocationFactors :
          update_location_factor(s, m, l, f)
    \/ \E m \in risk_models, l \in QuoteLocations, p \in QuotePerils,
          c \in QuoteCoverageAmounts, mo \in QuoteMonths :
          calculate_premium(m, l, p, c, mo)

SpecRisk == Init /\ [][NextRisk]_vars

\* the error the specification names for a zero coverage amount
InvalidCoverageAmount == "InvalidCoverageAmount"

\* C25: calculate_premium with coverage_amount = 0 fails with
\* InvalidCoverageAmount, before any division, and returns no quote
C25_ZeroCoverageRejected ==
    [][\A m \in risk_models, l \in QuoteLocations, p \in QuotePerils, mo \in QuoteMonths :
          calculate_premium(m, l, p, 0, mo)
          => /\ last'.err = InvalidCoverageAmount
             /\ UNCHANGED quotes]_vars

\* the four factors calculate_premium looks up
FactorsOf(m, l, p, c, mo) ==
    <<factor_or_default(m.location_factors, l),
      factor_or_default(m.peril_factors, p),
      factor_or_default(m.seasonal_factors, IF mo \in 1..12 THEN mo ELSE 1),
      factor_or_default(m.coverage_factors, closest_tier(c))>>

\* signed adjustment: negative for a factor below 100
SignedAdjustment(base, factor) == (base * factor) \div 100 - base

\* C26: for every coverage_amount > 0 and every factor value calculate_premium
\* succeeds, and final_premium = base_premium + the sum of the four signed
\* adjustments floor(base_premium * factor / 100) - base_premium
C26_SignedAdjustments ==
    [][\A m \in risk_models, l \in QuoteLocations, p \in QuotePerils,
          c \in QuoteCoverageAmounts \ {0}, mo \in QuoteMonths :
          calculate_premium(m, l, p, c, mo)
          => /\ last'.err = OK
             /\ \E q \in quotes' \ quotes :
                   LET base == (c * m.base_premium_rate) \div 10000
                       f == FactorsOf(m, l, p, c, mo)
                   IN /\ q.base_premium = base
                      /\ q.final_premium = base + SignedAdjustment(base, f[1])
                                                + SignedAdjustment(base, f[2])
                                                + SignedAdjustment(base, f[3])
                                                + SignedAdjustment(base, f[4])]_vars

(* ------------------------- margin requirement ------------------------- *)

MarginLocations == {"east-africa", "unknown-region"}
MarginPerils == {"drought", "unknown-peril"}
MarginCoverageAmounts == {10000, 12345}
MarginCollateralAmounts == {3000, 5000}

\* policies for locations and perils with and without an entry in the risk tables
CreateMarginNext ==
    \E s \in PolicyCreators, l \in MarginLocations, p \in MarginPerils,
       c \in MarginCoverageAmounts, t \in Thresholds, o \in Operators,
       k \in MarginCollateralAmounts : create_policy(s, l, p, c, t, o, k)

NextMargin ==
    \/ CreateMarginNext
    \/ CollateralNext
    \/ TerminateNext

SpecMargin == Init /\ [][NextMargin]_vars

\* risk scores of the two tables, 1000 for a key that has no entry
ExpectedLocationRisk(l) == IF l = "east-africa" THEN 1200 ELSE 1000
ExpectedPerilRisk(p) == IF p = "drought" THEN 1300 ELSE 1000

\* C27: the margin requirement of a new policy is
\* floor(coverage_amount * (base_margin + location_risk + peril_risk) / 10000),
\* a location or peril without a table entry counting 1000, and policy
\* creation fails for no other reason than collateral below that margin
C27_MarginWithDefaults ==
    [][\A s \in PolicyCreators, l \in MarginLocations, p \in MarginPerils,
          c \in MarginCoverageAmounts, t \in Thresholds, o \in Operators,
          k \in MarginCollateralAmounts :
          create_policy(s, l, p, c, t, o, k)
          => LET margin == (c * (1000 + ExpectedLocationRisk(l) + ExpectedPerilRisk(p))) \div 10000
             IN IF k >= margin
                THEN /\ last'.err = OK
                     /\ policies'[Len(policies')].margin_requirement = margin
                ELSE last'.err = InsufficientCollateral]_vars

\* a policy for a location and a peril that have no table entry was created
\* with the margin 10000 * 3000 / 10000
C27_Witness ==
    /\ last = Outcome("create_policy", OK)
    /\ \E pid \in PolicyIds :
          /\ policies[pid].location = "unknown-region"
          /\ policies[pid].peril_type = "unknown-peril"
          /\ policies[pid].coverage_amount = 10000
          /\ policies[pid].margin_requirement = 3000

(* ------------------- claims on one shared pool ------------------------ *)

MaxSharedPolicies == 2

\* policies of both owners, deposits, and claim evaluations against any of
\* the policies; the transactions on the shared pool are sequenced one at a
\* time, in any order
NextShared ==
    \/ \E s \in Addr, a \in DepositAmounts : add_liquidity(s, a)
    \/ \E s \in Addr, l \in PolicyLocations, p \in PolicyPerils, c \in CoverageAmounts,
          t \in Thresholds, o \in Operators, k \in CollateralAmounts :
          create_policy_within(MaxSharedPolicies, s, l, p, c, t, o, k)
    \/ \E pid \in PolicyIds, d \in AggregatedDataInputs :
          process_claim_with_aggregated_data(pid, d)

SpecShared == Init /\ [][NextShared]_vars

\* every deposit mints one LPToken and no token is burnt without a withdrawal
Deposited == 10000 * BagCardinality(lp_tokens)

\* the payouts of all claims that succeeded
TotalPaid == SumFn([pid \in PolicyIds |-> PaidOut(pid)], PolicyIds)

\* C28: however claim evaluations against different policies interleave on
\* the shared pool, total_liquidity is what was deposited less the payouts of
\* the claims that succeeded and is never negative; a triggered claim is paid
\* in full when the pool covers it and otherwise fails with
\* InsufficientLiquidity, changing nothing
C28_SharedPoolSerial ==
    [][ /\ pool'.total_liquidity = Deposited' - TotalPaid'
        /\ pool'.total_liquidity >= 0
        /\ \A pid \in PolicyIds, d \in AggregatedDataInputs :
             ( /\ process_claim_with_aggregated_data(pid, d)
               /\ policies[pid].active
               /\ d.location = policies[pid].location
               /\ d.data_type = policies[pid].peril_type
               /\ fits_u64(d.value)
               /\ trigger_met(policies[pid].trigger_operator, as_u64(d.value),
                              policies[pid].trigger_threshold) )
             => IF pool.total_liquidity >= policies[pid].coverage_amount
                THEN /\ last'.err = OK
                     /\ pool'.total_liquidity
                          = pool.total_liquidity - policies[pid].coverage_amount
                     /\ \E c \in NewClaims : c.policy_id = pid /\ c.status = 1
                ELSE /\ last'.err = InsufficientLiquidity
                     /\ UNCHANGED <<pool, claims>>
      ]_vars

\* two policies of different owners, one deposit: one claim was paid, it
\* emptied the pool, and the next claim failed for want of liquidity
C28_Witness ==
    /\ last = Outcome("process_claim_with_aggregated_data", InsufficientLiquidity)
    /\ Len(policies) = 2
    /\ policies[1].owner # policies[2].owner
    /\ policies[1].trigger_operator = 0 /\ policies[2].trigger_operator = 0
    /\ BagCardinality(lp_tokens) = 1
    /\ BagCardinality(claims) = 1
    /\ \E c \in ClaimSet : c.status = 1 /\ c.payout_amount = 10000
    /\ pool.total_liquidity = 0

(* ---------------------- oracle decimal precision ---------------------- *)

\* aggregator results that denote 99 and 102 units, reported with no and
\* with one decimal place
PrecisionReadings == {<<99, 0>>, <<990, 1>>, <<102, 0>>, <<1020, 1>>}

PrecisionAggregators ==
    {[location |-> l, data_type |-> t, value |-> U128(0, r[1]), decimal_places |-> r[2]] :
        l \in PolicyLocations, t \in PolicyPerils, r \in PrecisionReadings}

NextPrecision ==
    \/ PoolNext
    \/ CreateLessThanNext
    \/ \E pid \in PolicyIds, a \in PrecisionAggregators :
          process_claim_with_aggregator(pid, a)

SpecPrecision == Init /\ [][NextPrecision]_vars

RECURSIVE Pow10(_)
Pow10(n) == IF n = 0 THEN 1 ELSE 10 * Pow10(n - 1)

\* the two claims were evaluated on readings of the same physical value
SamePhysicalValue(c1, c2) ==
    /\ fits_u64(c1.actual_value)
    /\ fits_u64(c2.actual_value)
    /\ as_u64(c1.actual_value) * Pow10(c2.decimal_places)
         = as_u64(c2.actual_value) * Pow10(c1.decimal_places)

\* C29: two oracle readings that denote the same physical value at different
\* decimal_places give claims on the same policy the same status
C29_PrecisionNormalised ==
    \A c1 \in ClaimSet, c2 \in ClaimSet :
       (c1.policy_id = c2.policy_id /\ SamePhysicalValue(c1, c2))
       => c1.status = c2.status

(* --------------------------- premium quotes --------------------------- *)

MaxReadings == 3

StatFeedIds == 1..2
StatValues == {0, 1, 3}

\* batches of one to MaxReadings readings, each from one of two feeds
StatBatches ==
    UNION {[feed_ids : [1..k -> StatFeedIds],
            feed_values : [1..k -> StatValues],
            feed_timestamps : [1..k -> {0}]] : k \in 1..MaxReadings}

\* the batch handed to the aggregation calls is drawn once
InitStats ==
    /\ pool = create_pool
    /\ lp_tokens = EmptyBag
    /\ policies = <<>>
    /\ registry = [total_policies |-> 0, total_coverage |-> 0]
    /\ claims = EmptyBag
    /\ funding_rates = {}
    /\ funding_events = 0
    /\ epoch = 0
    /\ last = Outcome("init", OK)
    /\ feed_registry = <<>>
    /\ aggregated = {}
    /\ batch \in StatBatches
    /\ readings = <<>>
    /\ risk_models = {}
    /\ quotes = {}

\* feed registration and the two median aggregations
NextStats ==
    \/ \E t \in FeedDataTypes, l \in FeedLocations : register_feed(t, l)
    \/ \E l \in FeedLocations, t \in FeedDataTypes :
          aggregate_data(l, t, batch.feed_ids, batch.feed_values, batch.feed_timestamps)
    \/ \E l \in FeedLocations, t \in FeedDataTypes :
          aggregate_multiple_feeds(batch.feed_ids, batch.feed_values, l, t)

SpecStats == InitStats /\ [][NextStats]_vars

\* sum of the absolute distances of the readings from a centre
TotalDistance(v, centre) ==
    SumFn([i \in DOMAIN v |-> IF v[i] > centre THEN v[i] - centre ELSE centre - v[i]], DOMAIN v)

\* C31 (as stated): for two or more sources whose median is 0 the
\* confidence is 5000, also when every reading is 0
C31_ZeroMedianMedium ==
    \A a \in Scored : (a.num_sources >= 2 /\ a.value = 0) => a.confidence = 5000

\* C31 (amended): for two or more sources whose median is 0 the aggregation
\* succeeds and the confidence is 5000 when the average absolute deviation
\* floor(sum |v_i| / n) is at least 1 and 10000 when it is 0, as for a batch
\* of zeros
C31_ZeroMedianConfidence ==
    \A a \in Scored :
       (a.num_sources >= 2 /\ a.value = 0)
       => /\ a.num_sources = Len(batch.feed_values)
          /\ a.confidence =
                IF TotalDistance(batch.feed_values, 0) \div Len(batch.feed_values) = 0
                THEN 10000 ELSE 5000

\* three readings with median 0 and one reading of 3 were scored 5000
C31_Witness ==
    \E a \in Scored :
       /\ a.num_sources = 3
       /\ a.value = 0
       /\ a.confidence = 5000
       /\ TotalDistance(batch.feed_values, 0) = 3

\* the records of the two modules that aggregate by median
MedianRecords ==
    {a \in aggregated : a.module \in {"switchboard_oracle", "switchboard_oracle_integration"}}

\* the nondecreasing rearrangements of v
SortedPermutations(v) ==
    {s \in [DOMAIN v -> {v[i] : i \in DOMAIN v}] :
        /\ \A i, j \in DOMAIN s : i < j => s[i] <= s[j]
        /\ \A x \in {v[i] : i \in DOMAIN v} :
              Cardinality({i \in DOMAIN s : s[i] = x}) = Cardinality({i \in DOMAIN v : v[i] = x})}

MiddleOf(s) ==
    LET n == Len(s) IN
    IF n % 2 = 1 THEN s[(n + 1) \div 2]
    ELSE (s[n \div 2] + s[(n \div 2) + 1]) \div 2

\* C32: the aggregate value is the median of the readings: the middle value
\* of their nondecreasing rearrangement for an odd count, the floor of the
\* average of the two middle values for an even count
C32_AggregateIsMedian ==
    \A a \in MedianRecords :
       \E s \in SortedPermutations(batch.feed_values) : a.value = MiddleOf(s)

\* an unsorted pair with an odd sum was aggregated to the rounded-down average
C32_Witness ==
    /\ batch.feed_values = <<3, 0>>
    /\ \E a \in MedianRecords : a.value = 1

\* an unsorted triple was aggregated to its middle value
C32_OddWitness ==
    /\ batch.feed_values = <<3, 0, 1>>
    /\ \E a \in MedianRecords : a.value = 1

\* the records of switchboard_oracle_integration, which carry mean and stdev
Measured == {a \in aggregated : a.module = "switchboard_oracle_integration"}

\* the largest s with s * s <= v
Isqrt(v) == CHOOSE s \in 0..v : s * s <= v /\ (s + 1) * (s + 1) > v

PopulationVariance(v) ==
    LET m == SumFn(v, DOMAIN v) \div Len(v)
    IN SumFn([i \in DOMAIN v |-> (v[i] - m) * (v[i] - m)], DOMAIN v) \div Len(v)

\* C33: the mean is floor(sum / n) and the standard deviation is the
\* truncating integer square root of the population variance
C33_MeanAndStdev ==
    \A a \in Measured :
       /\ a.mean = SumFn(batch.feed_values, DOMAIN batch.feed_values) \div Len(batch.feed_values)
       /\ a.stdev = Isqrt(PopulationVariance(batch.feed_values))

(* --------------------------- coverage tiers --------------------------- *)

\* (base premium rate, coverage amount): amounts between, at equal distance
\* from and below the breakpoints at the usual rate, and an amount far above
\* them at a rate that keeps its premium small
TierQuotes == ({500} \X {1, 3000, 5000, 7500, 30000, 75000}) \cup ({1} \X {1100000000})
TierMonths == {1, 4, 6}

\* a risk model and premium quotes for the tier amounts
NextTier ==
    \/ \E s \in Addr, rc \in TierQuotes : create_risk_model(s, rc[1])
    \/ \E m \in risk_models, l \in QuoteLocations, p \in QuotePerils,
          rc \in TierQuotes, mo \in TierMonths :
          /\ m.base_premium_rate = rc[1]
          /\ calculate_premium(m, l, p, rc[2], mo)

SpecTier == Init /\ [][NextTier]_vars

Breakpoints == {1000, 5000, 10000, 50000, 100000}

Distance(a, b) == IF a > b THEN a - b ELSE b - a

\* the breakpoint nearest to c, the smaller one of two at equal distance
NearestBreakpoint(c) ==
    CHOOSE t \in Breakpoints :
       \A u \in Breakpoints :
          \/ Distance(t, c) < Distance(u, c)
          \/ Distance(t, c) = Distance(u, c) /\ t <= u

\* C34: for every coverage_amount the tier calculate_premium uses is the
\* breakpoint with the smallest absolute difference from coverage_amount, the
\* smaller breakpoint on a tie
C34_NearestTier ==
    [][\A m \in risk_models, l \in QuoteLocations, p \in QuotePerils,
          rc \in TierQuotes, mo \in TierMonths :
          (m.base_premium_rate = rc[1] /\ calculate_premium(m, l, p, rc[2], mo))
          => /\ closest_tier(rc[2]) = NearestBreakpoint(rc[2])
             /\ (last'.err = OK =>
                   \A q \in quotes' \ quotes :
                      q.coverage_adjustment =
                         premium_adjustment(q.base_premium,
                            default_coverage_factors[NearestBreakpoint(rc[2])]))]_vars

(* -------------------------- registry totals --------------------------- *)

MaxRegistryPolicies == 3

\* policies of both owners are created, with and without enough collateral,
\* and terminated by their owner or refused to anyone else
NextRegistry ==
    \/ \E s \in Addr, l \in PolicyLocations, p \in PolicyPerils,
          c \in MarginCoverageAmounts, t \in Thresholds, k \in MarginCollateralAmounts :
          create_policy_within(MaxRegistryPolicies, s, l, p, c, t, 0, k)
    \/ TerminateNext

SpecRegistry == Init /\ [][NextRegistry]_vars

\* sum of the coverage amounts of the policies that are active
ActiveCoverage ==
    SumFn([i \in PolicyIds |-> IF policies[i].active THEN policies[i].coverage_amount ELSE 0],
          PolicyIds)

\* C35: in every reachable state the registry's total_coverage, the value
\* returned as total insured value, is the sum of coverage_amount over the
\* active policies, after any sequence of create and terminate operations
C35_TotalCoverageIsActiveSum ==
    /\ registry.total_coverage = ActiveCoverage
    /\ get_total_insured_value = ActiveCoverage

\* two policies were created and one of them terminated: the total is the
\* coverage of the one that is left
C35_Witness ==
    /\ Len(policies) >= 2
    /\ \E i, j \in PolicyIds :
          /\ ~policies[i].active
          /\ policies[j].active
          /\ policies[i].coverage_amount # policies[j].coverage_amount
    /\ last = Outcome("terminate_policy", OK)
    /\ registry.total_coverage > 0

(* ------------------- deposits and withdrawals only -------------------- *)

\* C36: in every pool state reached from the empty pool by deposits and
\* withdrawals only, total_liquidity equals total_shares, so every deposit
\* issues exactly `amount` shares and every withdrawal returns exactly
\* `shares` units
C36_LiquidityEqualsShares ==
    [][ /\ pool.total_liquidity = pool.total_shares
        /\ pool'.total_liquidity = pool'.total_shares
        /\ \A s \in Addr, a \in OddDepositAmounts :
              (add_liquidity(s, a) /\ last'.err = OK) =>
                 /\ lp_tokens' = lp_tokens (+) SetToBag({[owner |-> s, shares |-> a]})
                 /\ pool'.total_shares = pool.total_shares + a
        /\ \A s \in Addr, t \in BagToSet(lp_tokens) :
              (remove_liquidity(s, t) /\ last'.err = OK) =>
                 /\ pool.total_liquidity - pool'.total_liquidity = t.shares
                 /\ pool.total_shares - pool'.total_shares = t.shares
      ]_vars

\* a second deposit went into a funded pool and one of the two tokens was
\* redeemed: liquidity and shares are still equal and positive
C36_Witness ==
    /\ last = Outcome("remove_liquidity", OK)
    /\ BagCardinality(lp_tokens) = 1
    /\ pool.total_shares > 0
    /\ pool.total_liquidity = pool.total_shares
    /\ \E a \in DOMAIN pool.lp_shares : pool.lp_shares[a] = 0

(* --------------------------- drained pool ----------------------------- *)

\* payouts have taken all the liquidity while shares are outstanding
Drained == pool.total_liquidity = 0 /\ pool.total_shares > 0

\* C37: once payouts have reduced total_liquidity to 0 while shares are
\* outstanding, every deposit fails on the division by zero of the share
\* calculation and leaves the pool unchanged; deposits commit again when
\* all outstanding shares have been withdrawn
C37_DrainedPoolRefusesDeposits ==
    [][\A s \in Addr, a \in DepositAmounts :
          add_liquidity(s, a) =>
             /\ Drained => /\ last' = Outcome("add_liquidity", ArithmeticError)
                           /\ pool' = pool
                           /\ lp_tokens' = lp_tokens
             /\ pool.total_shares = 0 =>
                           /\ last' = Outcome("add_liquidity", OK)
                           /\ pool'.total_liquidity = pool.total_liquidity + a
                           /\ pool'.total_shares = a]_vars

\* a deposit into the drained pool was refused after an approved claim
C37_Witness ==
    /\ Drained
    /\ last = Outcome("add_liquidity", ArithmeticError)
    /\ \E c \in BagToSet(claims) : c.payout_amount > 0

\* the shares of the drained pool were withdrawn for nothing and the next
\* deposit committed
C37_RecoveredWitness ==
    /\ last = Outcome("add_liquidity", OK)
    /\ \E c \in BagToSet(claims) : c.payout_amount > 0
    /\ \E a \in DOMAIN pool.lp_shares : pool.lp_shares[a] = 0
    /\ pool.total_liquidity = pool.total_shares

(* ------------------- truncation in the share price -------------------- *)

SkewDepositAmounts == {3, 7, 11}
SkewCoverageAmounts == {5}

\* deposits and withdrawals of two providers around payouts that leave the
\* liquidity below the shares, so that share prices do not divide evenly
NextSkew ==
    \/ \E s \in Addr, a \in SkewDepositAmounts : add_liquidity(s, a)
    \/ \E s \in Addr, t \in BagToSet(lp_tokens) : remove_liquidity(s, t)
    \/ \E s \in PolicyCreators, l \in PolicyLocations, p \in PolicyPerils,
          c \in SkewCoverageAmounts, t \in Thresholds, k \in CollateralAmounts :
          create_policy(s, l, p, c, t, 0, k)
    \/ \E pid \in PolicyIds, v \in ObservedValues :
          process_claim_with_aggregated_data(pid,
             [location |-> policies[pid].location,
              data_type |-> policies[pid].peril_type,
              value |-> U128(0, v),
              sources_count |-> 3])

SpecSkew == Init /\ [][NextSkew]_vars

\* C38: neither a deposit nor a withdrawal by one provider ever decreases
\* the claimable amount floor(shares_p * total_liquidity / total_shares) of
\* any other provider p
C38_OthersNeverLose ==
    [][\A s \in Addr :
          ( \/ \E a \in SkewDepositAmounts : add_liquidity(s, a)
            \/ \E t \in BagToSet(lp_tokens) : t.owner = s /\ remove_liquidity(s, t) )
          => \A p \in Addr \ {s} : Claimable(p)' >= Claimable(p)]_vars

\* a deposit was priced with a remainder while the other provider held
\* shares worth less than their number
C38_Witness ==
    /\ last = Outcome("add_liquidity", OK)
    /\ \E t \in BagToSet(lp_tokens), p \in Addr :
          /\ p # t.owner
          /\ t.shares \notin SkewDepositAmounts
          /\ SharesOf(pool, p) > 0
          /\ Claimable(p) > 0
          /\ Claimable(p) < SharesOf(pool, p)

\* a withdrawal was paid with a remainder while the other provider held shares
C38_WithdrawalWitness ==
    /\ last = Outcome("remove_liquidity", OK)
    /\ pool.total_shares > 0
    /\ pool.total_liquidity % pool.total_shares # 0
    /\ \E p \in Addr : SharesOf(pool, p) > 0 /\ Claimable(p) > 0

(* ------------------------- repeated settlement ------------------------ *)

MaxSharedRates == 2
MaxSettlements == 2

\* a funded pool, a policy, rates computed at different epochs and for
\* different insured values, and settlements of any shared rate
NextResettle ==
    \/ \E a \in DepositAmounts : add_liquidity("bob", a)
    \/ CreateLessThanNext
    \/ \E v \in InsuredValues : update_funding_rate_within(MaxSharedRates, v)
    \/ \E pid \in PolicyIds, fr \in funding_rates :
          process_funding_payment_within(MaxSettlements, pid, fr)
    \/ \E d \in WindowJumps : advance_epoch(d)

SpecResettle == Init /\ [][NextResettle]_vars

\* the payment a settlement of rate fr against policy pid moves
PaymentOf(pid, fr) == (policies[pid].coverage_amount * fr.rate) \div 10000

\* the paying side holds the payment
Payable(pid, fr) ==
    IF fr.direction THEN PaymentOf(pid, fr) <= policies[pid].collateral_balance
    ELSE PaymentOf(pid, fr) <= pool.total_liquidity

\* C39: a funding rate is not consumed by settlement and not superseded by
\* recomputation: whatever was settled before and whatever newer rates exist,
\* a settlement at an epoch <= valid_until that the paying side can afford
\* commits, moves a further payment and leaves every rate object in place,
\* and computing a rate leaves the earlier rate objects in place
C39_RateReusable ==
    [][ /\ \A pid \in PolicyIds, fr \in funding_rates :
             process_funding_payment_within(MaxSettlements, pid, fr) =>
                /\ funding_rates' = funding_rates
                /\ (epoch <= fr.valid_until /\ Payable(pid, fr)) =>
                      /\ last' = Outcome("process_funding_payment", OK)
                      /\ IF fr.direction
                         THEN /\ policies'[pid].collateral_balance =
                                    policies[pid].collateral_balance - PaymentOf(pid, fr)
                              /\ pool'.total_liquidity = pool.total_liquidity + PaymentOf(pid, fr)
                         ELSE /\ policies'[pid].collateral_balance =
                                    policies[pid].collateral_balance + PaymentOf(pid, fr)
                              /\ pool'.total_liquidity = pool.total_liquidity - PaymentOf(pid, fr)
        /\ \A v \in InsuredValues :
             update_funding_rate_within(MaxSharedRates, v) => funding_rates \subseteq funding_rates'
      ]_vars

\* the only rate object was settled twice against the only policy, and each
\* settlement moved its payment
C39_Witness ==
    /\ last = Outcome("process_funding_payment", OK)
    /\ funding_events = 2
    /\ Len(policies) = 1
    /\ \E fr \in funding_rates :
          /\ funding_rates = {fr}
          /\ fr.direction
          /\ PaymentOf(1, fr) > 0
          /\ \E k \in CollateralAmounts :
                policies[1].collateral_balance = k - 2 * PaymentOf(1, fr)

\* the older of two rates was settled after the newer one had been computed
C39_SupersededWitness ==
    /\ last = Outcome("process_funding_payment", OK)
    /\ funding_events = 1
    /\ Len(policies) = 1
    /\ \E old, new \in funding_rates :
          /\ old.calculated_at < new.calculated_at
          /\ old.direction /\ ~new.direction
          /\ PaymentOf(1, old) > 0
          /\ \E k \in CollateralAmounts :
                policies[1].collateral_balance = k - PaymentOf(1, old)

(* ------------------------- undefined operator ------------------------- *)

\* the step added at most one record, a Rejected one without payout, and
\* left the pool as it was
RejectedOnly ==
    /\ pool' = pool
    /\ \A c \in NewClaims : c.status = 2 /\ c.payout_amount = 0
    /\ last'.err = OK => BagCardinality(claims') = BagCardinality(claims) + 1
    /\ last'.err # OK => claims' = claims

\* C40: for a policy whose trigger_operator is none of 0, 1, 2 the claim
\* entry points that evaluate the operator never approve: every evaluation
\* yields a Rejected claim with payout 0 and leaves the pool unchanged,
\* whatever the observed value
C40_UndefinedOperatorRejected ==
    [][\A pid \in PolicyIds :
          policies[pid].trigger_operator \notin 0..2 =>
             /\ \A d \in AggregatedDataInputs :
                   process_claim_with_aggregated_data(pid, d) => RejectedOnly
             /\ \A g \in AggregatorInputs :
                   process_claim_with_aggregator(pid, g) => RejectedOnly]_vars

\* a value below the threshold was evaluated for a policy with operator 3
\* while the pool could have paid: the claim is Rejected
C40_Witness ==
    /\ last = Outcome("process_claim_with_aggregated_data", OK)
    /\ pool.total_liquidity >= 10000
    /\ \E c \in ClaimSet :
          /\ policies[c.policy_id].trigger_operator = 3
          /\ policies[c.policy_id].active
          /\ "decimal_places" \in DOMAIN c
          /\ as_u64(c.actual_value) < c.trigger_value
          /\ c.status = 2
          /\ c.payout_amount = 0

====
